---- MODULE Spec2Model ----
(***************************************************************************)
(* Genetic VNF placement searcher: the placement state model               *)
(* (vnf_placement.py), the incremental request accepter                    *)
(* (request_accepter.py) and the genetic operators built on them           *)
(* (genetic_operators.py).                                                 *)
(*                                                                         *)
(* Real-valued quantities (link latency, link bandwidth, the bandwidth of  *)
(* a virtual link, the latency budget of a service) are fixed-point        *)
(* integers counted in ticks; Resolution ticks make 10^-6, the last digit  *)
(* that is_valid keeps when it rounds (validity_ndigits = 6).  Resource    *)
(* amounts are plain integers, as in the input file.                       *)
(***************************************************************************)
EXTENDS Integers, Sequences, FiniteSets, TLC

VARIABLES
    input,        \* the parsed input file: substrate, ratio floor, chain length
    accepter,     \* the RequestAccepter of the session (SpecAccepter)
    last_call,    \* the last accept call: request, outcome, placement before it
    population,   \* the chromosomes the operators work on (SpecOperators)
    last_op,      \* the last genetic operator applied, with its arguments
    codec,        \* a matrix, the placement decoded from it, its re-encoding
    sel,          \* a call of a selection operator: arguments and result
    ga            \* a run of the genetic algorithm: heap, population, step

vars == <<input, accepter, last_call, population, last_op, codec, sel, ga>>

(***************************************************************************)
(* Bounds of the model.                                                    *)
(***************************************************************************)
MaxCapacity == 2            \* node capacities range over 1..MaxCapacity
MaxBandwidth == 2           \* link bandwidths range over 1..MaxBandwidth ticks
MaxLatency == 2             \* latency of a link between two nodes: 0..MaxLatency
RatioDenominator == 2       \* the ratio floor ranges over i/RatioDenominator
Resolution == 3             \* ticks per 10^-6
MaxOperations == 2          \* operators applied to an initialized population

(***************************************************************************)
(* Generic helpers.                                                        *)
(***************************************************************************)
RECURSIVE Sum(_, _)
\* Python's sum(f[x] for x in S)
Sum(f, S) ==
    IF S = {} THEN 0
    ELSE LET x == CHOOSE y \in S : TRUE IN f[x] + Sum(f, S \ {x})

RECURSIVE SumSeq(_)
SumSeq(s) == IF s = <<>> THEN 0 ELSE Head(s) + SumSeq(Tail(s))

Max(a, b) == IF a >= b THEN a ELSE b

Range(s) == {s[i] : i \in DOMAIN s}

\* A faulty variant of Round: no rounding, the comparison with zero is exact.
round_exact(x) == x

\* Python's round(x, 6) on a quantity of x ticks: the nearest multiple of
\* 10^-6 (of Resolution ticks), a tie going to the even multiple.
Round(x) ==
    LET a == IF x < 0 THEN -x ELSE x
        q == a \div Resolution
        r == a % Resolution
        n == IF 2 * r < Resolution THEN q
             ELSE IF 2 * r > Resolution THEN q + 1
             ELSE IF q % 2 = 0 THEN q ELSE q + 1
    IN  IF x < 0 THEN -(n * Resolution) ELSE n * Resolution

(***************************************************************************)
(* The substrate: a complete directed graph with self-loops on two nodes,  *)
(* one resource type.  sorted_nodes gives the node of each matrix index.   *)
(***************************************************************************)
Nodes == {0, 1}
Links == Nodes \X Nodes
ResourceTypes == {0}

sorted_nodes == <<0, 1>>

\* Topology.link(tail, head): lookup by the ordered endpoint pair
link(tail, head) == <<tail, head>>

capacity_per_resource_type(n) == input.capacity[n]
latency(l) == input.latency[l]
bandwidth(l) == input.bandwidth[l]

(***************************************************************************)
(* The requests of the input file, in evaluated order: each main request   *)
(* followed by its alternatives.  Request 1 is a main request with the     *)
(* alternative 2; request 3 is a main request without alternatives.        *)
(***************************************************************************)
Requests == {1, 2, 3}
evaluated_requests == <<1, 2, 3>>
MainRequests == {1, 3}
isMainServiceRequest(r) == r \in MainRequests
alternative_requests(r) == IF r = 1 THEN <<2>> ELSE <<>>

ingress_node(r) == <<0, 0, 1>>[r]
egress_node(r) == <<1, 0, 0>>[r]
maximum_tolerated_latency(r) == <<1, 2, 1>>[r]
revenue(r) == <<10, 15, 8>>[r]

\* num_vnfs_per_request of the input file: every chain has this length
num_vnfs == input.num_vnfs_per_request
vnf_chain(r) == [j \in 1..num_vnfs |-> <<r, j>>]
VNFs == {<<r, j>> : r \in Requests, j \in 1..num_vnfs}

\* VNF.resources_needed_by_resource_type (a Counter)
resources_needed_by_resource_type(v) ==
    [t \in ResourceTypes |-> <<<<1, 1>>, <<2, 1>>, <<1, 1>>>>[v[1]][v[2]]]

\* The virtual links of a service, ingress -> v1 -> ... -> vk -> egress:
\* <<r, j>> is the j-th of them, so <<r, j>> is the link coming into VNF j
\* and <<r, num_vnfs + 1>> the one into the egress endpoint.
traffic_flow(r) == [j \in 1..(num_vnfs + 1) |-> <<r, j>>]
VirtualLinks == {<<r, j>> : r \in Requests, j \in 1..(num_vnfs + 1)}
minimum_guaranteed_bandwidth(vl) ==
    <<<<1, 3, 3>>, <<1, 1, 1>>, <<1, 1, 3>>>>[vl[1]][vl[2]]

\* ServiceTopology.incoming_links(vnf): the links whose head is the VNF
incoming_links(v) == {vl \in VirtualLinks : vl = <<v[1], v[2]>>}

\* Input.incompatible_nodes_per_vnf: only the VNFs listed are keys
incompatible_nodes_per_vnf == [v \in {<<2, 1>>} |-> {1}]

\* The ratio floor as a fraction <<numerator, denominator>>
minimum_ratio_of_main_requests ==
    <<input.minimum_ratio_numerator, RatioDenominator>>

\* a / b >= c / d on fractions with positive denominators
RatioGE(x, y) == x[1] * y[2] >= y[1] * x[2]
RatioLT(x, y) == ~RatioGE(x, y)

(***************************************************************************)
(* A placement is its designated_nodes_per_request: for every request      *)
(* either None or the list [ingress node, one node per VNF, egress node].  *)
(* The derived quantities are pure functions of it (cached in the source). *)
(***************************************************************************)
None == <<>>

accepts(d, r) == d[r] # None
rejects(d, r) == ~accepts(d, r)

accepted_requests(d) == {r \in Requests : accepts(d, r)}
rejected_requests(d) == {r \in Requests : rejects(d, r)}
evaluated_main_requests(d) == SelectSeq(evaluated_requests, isMainServiceRequest)
accepted_main_requests(d) ==
    {r \in Range(evaluated_main_requests(d)) : accepts(d, r)}

\* interior = designated_nodes[1:-1]
Interior(nodes) == SubSeq(nodes, 2, Len(nodes) - 1)

\* zip(vnf_chain, designated_nodes[1:-1]); None for the VNFs of a rejected
\* request (and for those the zip leaves out)
designated_node_per_vnf(d) ==
    [v \in VNFs |->
        IF d[v[1]] # None /\ v[2] <= Len(Interior(d[v[1]]))
        THEN Interior(d[v[1]])[v[2]]
        ELSE -1]

vnfs_by_designated_node(d) ==
    [n \in Nodes |-> {v \in VNFs : designated_node_per_vnf(d)[v] = n}]

\* NetworkTopology.path_from_nodes: the links of the consecutive pairs
path_from_nodes(nodes) ==
    [j \in 1..(Len(nodes) - 1) |-> link(nodes[j], nodes[j + 1])]

designated_network_link_per_virtual_link(d) ==
    [vl \in VirtualLinks |->
        IF d[vl[1]] # None /\ vl[2] <= Len(path_from_nodes(d[vl[1]]))
        THEN path_from_nodes(d[vl[1]])[vl[2]]
        ELSE None]

virtual_links_by_designated_network_link(d) ==
    [l \in Links |->
        {vl \in VirtualLinks : designated_network_link_per_virtual_link(d)[vl] = l}]

employed_nodes(d) == {n \in Nodes : vnfs_by_designated_node(d)[n] # {}}

allocated_resources_per_node(d) ==
    [n \in Nodes |-> [t \in ResourceTypes |->
        Sum([v \in VNFs |-> resources_needed_by_resource_type(v)[t]],
            vnfs_by_designated_node(d)[n])]]

\* A faulty variant of subtract_counters: collection_utils.add_counters
add_counters(a, b) == [t \in ResourceTypes |-> a[t] + b[t]]

\* collection_utils.subtract_counters: may go negative
subtract_counters(a, b) == [t \in ResourceTypes |-> a[t] - b[t]]

remaining_resources_per_node(d) ==
    [n \in Nodes |->
        subtract_counters(capacity_per_resource_type(n),
                          allocated_resources_per_node(d)[n])]

cumulative_resource_shortage(d) ==
    Sum([x \in Nodes \X ResourceTypes |->
            Max(0, -remaining_resources_per_node(d)[x[1]][x[2]])],
        Nodes \X ResourceTypes)

allocated_bandwidth_per_network_link(d) ==
    [l \in Links |->
        Sum([vl \in VirtualLinks |-> minimum_guaranteed_bandwidth(vl)],
            virtual_links_by_designated_network_link(d)[l])]

remaining_bandwidth_per_network_link(d) ==
    [l \in Links |-> bandwidth(l) - allocated_bandwidth_per_network_link(d)[l]]

cumulative_bandwidth_shortage(d) ==
    Sum([l \in Links |-> Max(0, -remaining_bandwidth_per_network_link(d)[l])],
        Links)

\* NetworkPath.latency of the designated path of an accepted request
effective_latencies_by_service(d) ==
    [r \in accepted_requests(d) |->
        SumSeq([j \in DOMAIN path_from_nodes(d[r]) |->
                    latency(path_from_nodes(d[r])[j])])]

cumulative_excess_latency(d) ==
    Sum([r \in accepted_requests(d) |->
            Max(0, effective_latencies_by_service(d)[r]
                       - maximum_tolerated_latency(r))],
        accepted_requests(d))

incompatible_placements(d) ==
    {v \in VNFs :
        /\ v \in DOMAIN incompatible_nodes_per_vnf
        /\ designated_node_per_vnf(d)[v] \in incompatible_nodes_per_vnf[v]}

incompatible_placements_count(d) == Cardinality(incompatible_placements(d))

\* VNFChainPlacement.is_valid
base_is_valid(d) ==
    /\ cumulative_resource_shortage(d) = 0
    /\ Round(cumulative_excess_latency(d)) = 0
    /\ Round(cumulative_bandwidth_shortage(d)) = 0
    /\ incompatible_placements_count(d) = 0

\* accepted main / accepted as a fraction; 0.0 when nothing is accepted
ratio_of_accepted_main_requests(d) ==
    IF Cardinality(accepted_requests(d)) = 0
    THEN <<0, 1>>
    ELSE <<Cardinality(accepted_main_requests(d)),
           Cardinality(accepted_requests(d))>>

\* [main, *main.alternative_requests] for every evaluated main request
mutually_exclusive_requests_groups(d) ==
    [i \in DOMAIN evaluated_main_requests(d) |->
        <<evaluated_main_requests(d)[i]>>
            \o alternative_requests(evaluated_main_requests(d)[i])]

mutual_exclusivity_violations_count(d) ==
    Sum([i \in DOMAIN mutually_exclusive_requests_groups(d) |->
            Max(0, Cardinality(Range(mutually_exclusive_requests_groups(d)[i])
                               \cap accepted_requests(d)) - 1)],
        DOMAIN mutually_exclusive_requests_groups(d))

\* MultiFlavouredVNFChainPlacement.is_valid
is_valid(d) ==
    /\ base_is_valid(d)
    /\ mutual_exclusivity_violations_count(d) = 0
    /\ RatioGE(ratio_of_accepted_main_requests(d),
               minimum_ratio_of_main_requests)

(***************************************************************************)
(* The placement matrix (the chromosome's genes): one row per evaluated    *)
(* request, one cell per VNF, holding the index of the node in             *)
(* sorted_nodes or -1.                                                     *)
(***************************************************************************)
\* sorted_nodes.index(node): Python indexes from 0
index(node) ==
    (CHOOSE i \in DOMAIN sorted_nodes :
        /\ sorted_nodes[i] = node
        /\ \A j \in DOMAIN sorted_nodes : sorted_nodes[j] = node => i <= j) - 1

\* VNFChainPlacement._parse_placement_matrix
parse_placement_matrix(placement_matrix) ==
    [r \in Requests |->
        LET request_index == CHOOSE i \in DOMAIN evaluated_requests :
                                 evaluated_requests[i] = r
            row == placement_matrix[request_index]
        IN  IF request_index \in DOMAIN placement_matrix
               /\ \A c \in DOMAIN row : row[c] >= 0
            THEN <<ingress_node(r)>>
                 \o [c \in DOMAIN row |-> sorted_nodes[row[c] + 1]]
                 \o <<egress_node(r)>>
            ELSE None]

\* A faulty variant of placement_matrix: every request encoded as rejected.
placement_matrix_all_rejected(d) ==
    [i \in DOMAIN evaluated_requests |->
        [c \in 1..Len(vnf_chain(evaluated_requests[i])) |-> -1]]

\* VNFChainPlacement.placement_matrix
placement_matrix(d) ==
    [i \in DOMAIN evaluated_requests |->
        LET request == evaluated_requests[i]
        IN  IF d[request] = None
            THEN [c \in 1..Len(vnf_chain(request)) |-> -1]
            ELSE [c \in DOMAIN Interior(d[request]) |->
                     index(Interior(d[request])[c])]]

\* genetic_operators.decoding_function
decoding_function(genes) == parse_placement_matrix(genes)

\* the placement that rejects every request
empty_placement == [r \in Requests |-> None]

(***************************************************************************)
(* RequestAccepter.  An accepter is the record of its three fields.        *)
(***************************************************************************)
\* RequestAccepter.__init__
RequestAccepter(initial_placement) ==
    [current_placement |-> initial_placement,
     remaining_resources_per_node |->
         remaining_resources_per_node(initial_placement),
     remaining_bandwidth_per_network_link |->
         remaining_bandwidth_per_network_link(initial_placement)]

\* A faulty variant of _are_mutually_exclusive_requests_rejected: the group
\* of the request is not looked at.
exclusivity_check_skipped(acc, request) == TRUE

\* RequestAccepter._are_mutually_exclusive_requests_rejected
are_mutually_exclusive_requests_rejected(acc, request) ==
    LET groups == mutually_exclusive_requests_groups(acc.current_placement)
        containing == {i \in DOMAIN groups : request \in Range(groups[i])}
        \* next(...): the first group that holds the request, else the empty list
        group == IF containing = {} THEN <<>>
                 ELSE groups[CHOOSE i \in containing :
                                 \A j \in containing : i <= j]
    IN  \A other_request \in Range(group) :
            other_request # request => rejects(acc.current_placement, other_request)

\* A faulty variant of _would_accepting_request_meet_minimum_main_request_ratio:
\* the forecast is skipped for alternative requests too.
ratio_forecast_skipped(acc, request) == TRUE

\* RequestAccepter._would_accepting_request_meet_minimum_main_request_ratio
would_accepting_request_meet_minimum_main_request_ratio(acc, request) ==
    IF isMainServiceRequest(request)
    THEN TRUE
    ELSE RatioGE(<<Cardinality(accepted_main_requests(acc.current_placement)),
                   Cardinality(accepted_requests(acc.current_placement)) + 1>>,
                 minimum_ratio_of_main_requests)

\* RequestAccepter._is_request_compatible_with_currently_accepted_requests
is_request_compatible_with_currently_accepted_requests(acc, request) ==
    /\ are_mutually_exclusive_requests_rejected(acc, request)
    /\ would_accepting_request_meet_minimum_main_request_ratio(acc, request)

\* A faulty variant of _network_node_has_sufficient_resources that takes
\* every node as roomy enough
resources_check_skipped(resources, node, vnf) == TRUE

\* RequestAccepter._network_node_has_sufficient_resources
network_node_has_sufficient_resources(resources, node, vnf) ==
    \A t \in ResourceTypes :
        subtract_counters(resources[node],
                          resources_needed_by_resource_type(vnf))[t] >= 0

\* RequestAccepter._network_node_is_compatible_with_vnf
network_node_is_compatible_with_vnf(node, vnf) ==
    LET incompatible_nodes == IF vnf \in DOMAIN incompatible_nodes_per_vnf
                              THEN incompatible_nodes_per_vnf[vnf]
                              ELSE {}
    IN  node \notin incompatible_nodes

\* A faulty variant of _incoming_network_link_is_suitable without the
\* latency comparison
latency_check_skipped(bandwidths, incoming_network_link, incoming_virtual_link, remaining_latency_tolerance) ==
    minimum_guaranteed_bandwidth(incoming_virtual_link)
        <= bandwidths[incoming_network_link]

\* RequestAccepter._incoming_network_link_is_suitable
incoming_network_link_is_suitable(bandwidths, incoming_network_link, incoming_virtual_link, remaining_latency_tolerance) ==
    /\ minimum_guaranteed_bandwidth(incoming_virtual_link)
           <= bandwidths[incoming_network_link]
    /\ latency(incoming_network_link) <= remaining_latency_tolerance

\* RequestAccepter._network_node_is_suitable
network_node_is_suitable(st, node, vnf, incoming_network_link, incoming_virtual_link) ==
    /\ network_node_has_sufficient_resources(st.resources, node, vnf)
    /\ network_node_is_compatible_with_vnf(node, vnf)
    /\ incoming_network_link_is_suitable(st.bandwidths, incoming_network_link,
                                         incoming_virtual_link,
                                         st.remaining_latency_tolerance)

\* The body of the loop of _find_suitable_nodes_for_request once a suitable
\* node is found: the node joins the list and the local residuals shrink.
PlaceVnf(st, node, vnf, incoming_network_link, incoming_virtual_link) ==
    [suitable_nodes |-> Append(st.suitable_nodes, node),
     resources |->
         [n \in DOMAIN st.resources |->
             IF n = node
             THEN subtract_counters(st.resources[n],
                                    resources_needed_by_resource_type(vnf))
             ELSE st.resources[n]],
     remaining_latency_tolerance |->
         st.remaining_latency_tolerance - latency(incoming_network_link),
     bandwidths |->
         [l \in DOMAIN st.bandwidths |->
             IF l = incoming_network_link
             THEN st.bandwidths[l]
                  - minimum_guaranteed_bandwidth(incoming_virtual_link)
             ELSE st.bandwidths[l]]]

\* The else branch of the loop: every VNF has a node, so the link from the
\* last one to the egress node is checked.  incoming_virtual_link is still
\* the variable the last iteration of the loop bound: the link into the last
\* VNF.  Nothing is subtracted for the egress link.
CheckEgress(request, st) ==
    LET incoming_network_link ==
            link(st.suitable_nodes[Len(st.suitable_nodes)], egress_node(request))
        incoming_virtual_link ==
            CHOOSE vl \in incoming_links(vnf_chain(request)[num_vnfs]) : TRUE
    IN  IF incoming_network_link_is_suitable(st.bandwidths,
                                             incoming_network_link,
                                             incoming_virtual_link,
                                             st.remaining_latency_tolerance)
        THEN [suitable_nodes |->
                  Append(st.suitable_nodes, egress_node(request)),
              resources |-> st.resources,
              remaining_latency_tolerance |-> st.remaining_latency_tolerance,
              bandwidths |-> st.bandwidths]
        ELSE [suitable_nodes |-> None,
              resources |-> st.resources,
              remaining_latency_tolerance |-> st.remaining_latency_tolerance,
              bandwidths |-> st.bandwidths]

RECURSIVE PlaceChain(_, _, _)
\* The loop of _find_suitable_nodes_for_request from the j-th VNF on: the
\* set of its outcomes over every shuffle of the nodes.  The first suitable
\* node of a shuffled list is any suitable node.
PlaceChain(request, j, st) ==
    IF j > num_vnfs
    THEN {CheckEgress(request, st)}
    ELSE LET vnf == vnf_chain(request)[j]
             incoming_virtual_link == CHOOSE vl \in incoming_links(vnf) : TRUE
             last == st.suitable_nodes[Len(st.suitable_nodes)]
             suitable == {node \in Range(sorted_nodes) :
                             network_node_is_suitable(st, node, vnf,
                                 link(last, node), incoming_virtual_link)}
         IN  IF suitable = {}
             THEN {[suitable_nodes |-> None,
                    resources |-> st.resources,
                    remaining_latency_tolerance |->
                        st.remaining_latency_tolerance,
                    bandwidths |-> st.bandwidths]}
             ELSE UNION {PlaceChain(request, j + 1,
                             PlaceVnf(st, node, vnf, link(last, node),
                                      incoming_virtual_link)) :
                         node \in suitable}

\* RequestAccepter._find_suitable_nodes_for_request: the set of pairs
\* (accepter after the call, suitable_nodes returned)
find_suitable_nodes_for_request(acc, request) ==
    LET start == [suitable_nodes |-> <<ingress_node(request)>>,
                  resources |-> acc.remaining_resources_per_node,
                  bandwidths |-> acc.remaining_bandwidth_per_network_link,
                  remaining_latency_tolerance |->
                      maximum_tolerated_latency(request)]
    IN  {IF st.suitable_nodes = None
         THEN \* restore the local residuals from the committed placement
              [accepter |-> RequestAccepter(acc.current_placement),
               suitable_nodes |-> None]
         ELSE [accepter |->
                   [current_placement |-> acc.current_placement,
                    remaining_resources_per_node |-> st.resources,
                    remaining_bandwidth_per_network_link |-> st.bandwidths],
               suitable_nodes |-> st.suitable_nodes] :
         st \in PlaceChain(request, 1, start)}

\* A faulty variant of RequestAccepter.accept without its two preconditions:
\* a request that is no key of the placement is refused with False, and an
\* accepted request is placed again
accept_without_preconditions(acc, request) ==
    IF request \notin DOMAIN acc.current_placement
    THEN {[accepter |-> acc, outcome |-> "False"]}
    ELSE IF is_request_compatible_with_currently_accepted_requests(acc, request)
    THEN {IF found.suitable_nodes # None
          THEN [accepter |->
                    [current_placement |->
                         [r \in DOMAIN acc.current_placement |->
                             IF r = request THEN found.suitable_nodes
                             ELSE acc.current_placement[r]],
                     remaining_resources_per_node |->
                         found.accepter.remaining_resources_per_node,
                     remaining_bandwidth_per_network_link |->
                         found.accepter.remaining_bandwidth_per_network_link],
                outcome |-> "True"]
          ELSE [accepter |-> found.accepter, outcome |-> "False"] :
          found \in find_suitable_nodes_for_request(acc, request)}
    ELSE {[accepter |-> acc, outcome |-> "False"]}

\* RequestAccepter.accept: the set of pairs (accepter after the call, outcome);
\* the outcome is "True", "False" or "ValueError"
accept(acc, request) ==
    IF request \notin DOMAIN acc.current_placement
    THEN {[accepter |-> acc, outcome |-> "ValueError"]}
    ELSE IF acc.current_placement[request] # None
    THEN {[accepter |-> acc, outcome |-> "ValueError"]}
    ELSE IF is_request_compatible_with_currently_accepted_requests(acc, request)
    THEN {IF found.suitable_nodes # None
          THEN [accepter |->
                    [current_placement |->
                         [r \in DOMAIN acc.current_placement |->
                             IF r = request THEN found.suitable_nodes
                             ELSE acc.current_placement[r]],
                     remaining_resources_per_node |->
                         found.accepter.remaining_resources_per_node,
                     remaining_bandwidth_per_network_link |->
                         found.accepter.remaining_bandwidth_per_network_link],
                outcome |-> "True"]
          ELSE [accepter |-> found.accepter, outcome |-> "False"] :
          found \in find_suitable_nodes_for_request(acc, request)}
    ELSE {[accepter |-> acc, outcome |-> "False"]}

(***************************************************************************)
(* The genetic operators on chromosomes (genetic_operators.py).  A         *)
(* chromosome is its genes, a placement matrix; every random draw of an    *)
(* operator is an argument or makes the result a set of outcomes.          *)
(***************************************************************************)
RECURSIVE AcceptAll(_, _)
\* "for request in shuffle(pending): request_accepter.accept(request)":
\* the accepters the loop can end with, over every order and every choice
\* of nodes
AcceptAll(acc, pending) ==
    IF pending = {} THEN {acc}
    ELSE UNION {UNION {AcceptAll(call.accepter, pending \ {next}) :
                           call \in accept(acc, next)} :
                next \in pending}

\* RandomPlacementInitializationOperator.__call__: the chromosomes it can
\* return
RandomPlacementInitialization ==
    {placement_matrix(final.current_placement) :
        final \in AcceptAll(RequestAccepter(empty_placement), Requests)}

\* RandomAcceptanceMutationOperator.__call__ up to its assertion: drawn is
\* the set of rejected requests whose draw fell below the acceptance
\* probability.  The placements the accepter can end with.
RandomAcceptanceMutationPlacements(genes, drawn) ==
    {final.current_placement :
        final \in AcceptAll(RequestAccepter(decoding_function(genes)),
                            {r \in drawn :
                                rejects(decoding_function(genes), r)})}

\* the rows RandomRejectionMutationOperator may reject: all(gene >= 0)
FullyPlacedRows(genes) ==
    {i \in DOMAIN genes : \A c \in DOMAIN genes[i] : genes[i][c] >= 0}

\* RandomRejectionMutationOperator.__call__: drawn is the set of rows whose
\* draw fell below the rejection probability
RandomRejectionMutation(genes, drawn) ==
    [i \in DOMAIN genes |->
        IF i \in FullyPlacedRows(genes) /\ i \in drawn
        THEN [c \in DOMAIN genes[i] |-> -1]
        ELSE genes[i]]

\* collection_utils.chunk(sequence, sizes=sizes): consecutive slices
chunk(sequence, sizes) ==
    [i \in DOMAIN sizes |->
        LET before == SumSeq(SubSeq(sizes, 1, i - 1))
        IN  SubSeq(sequence, before + 1,
                   IF before + sizes[i] <= Len(sequence)
                   THEN before + sizes[i] ELSE Len(sequence))]

\* A faulty variant of swap_elements_inside_interval that ignores end and
\* swaps every element from start on
swap_elements_from_start(a, b, start, end) ==
    <<[i \in DOMAIN a |-> IF start < i THEN b[i] ELSE a[i]],
      [i \in DOMAIN b |-> IF start < i THEN a[i] ELSE b[i]]>>

\* collection_utils.swap_elements_inside_interval, start and end counted
\* from 0 as in Python: a[:start] + b[start:end] + a[end:] and its mirror
swap_elements_inside_interval(a, b, start, end) ==
    <<[i \in DOMAIN a |-> IF start < i /\ i <= end THEN b[i] ELSE a[i]],
      [i \in DOMAIN b |-> IF start < i /\ i <= end THEN a[i] ELSE b[i]]>>

\* MatrixRowSwapCrossoverOperator._group_row_indexes_by_mutual_exclusivity:
\* row indexes from 0
group_row_indexes_by_mutual_exclusivity(d) ==
    chunk([i \in DOMAIN evaluated_requests |-> i - 1],
          [i \in DOMAIN mutually_exclusive_requests_groups(d) |->
              Len(mutually_exclusive_requests_groups(d)[i])])

SeqMin(s) == CHOOSE x \in Range(s) : \A y \in Range(s) : x <= y
SeqMax(s) == CHOOSE x \in Range(s) : \A y \in Range(s) : x >= y

\* the condition of the loop of the crossover: some row of the group holds
\* a gene >= 0 in either parent
AnyGeneSet(parent1, parent2, row_indexes_group) ==
    \E row_index \in Range(row_indexes_group) :
        \/ \E c \in DOMAIN parent1[row_index + 1] : parent1[row_index + 1][c] >= 0
        \/ \E c \in DOMAIN parent2[row_index + 1] : parent2[row_index + 1][c] >= 0

RECURSIVE RowSwapLoop(_, _, _)
\* The loop of MatrixRowSwapCrossoverOperator.__call__ over the shuffled
\* groups still to try; its else branch when none is left.
RowSwapLoop(parent1, parent2, groups) ==
    IF groups = <<>>
    THEN <<parent1, parent2>>
    ELSE LET row_indexes_group == Head(groups)
             children == swap_elements_inside_interval(
                             parent1, parent2,
                             SeqMin(row_indexes_group),
                             SeqMax(row_indexes_group) + 1)
         IN  IF /\ AnyGeneSet(parent1, parent2, row_indexes_group)
                /\ is_valid(decoding_function(children[1]))
                /\ is_valid(decoding_function(children[2]))
             THEN children
             ELSE RowSwapLoop(parent1, parent2, Tail(groups))

\* the orders collection_utils.shuffle can give a list of distinct elements
Shuffles(s) ==
    {q \in [DOMAIN s -> Range(s)] : \A x \in Range(s) : \E i \in DOMAIN q : q[i] = x}

\* A faulty variant of the crossover: the first shuffled group is swapped
\* and the children are returned without the validity test.
swap_without_validation(parent1, parent2, shuffled) ==
    swap_elements_inside_interval(parent1, parent2,
                                  SeqMin(Head(shuffled)),
                                  SeqMax(Head(shuffled)) + 1)

\* MatrixRowSwapCrossoverOperator.__call__: the pair of children, for the
\* shuffled list of row groups
MatrixRowSwapCrossover(parent1, parent2, shuffled) ==
    RowSwapLoop(parent1, parent2, shuffled)

(***************************************************************************)
(* The inputs the model ranges over.                                       *)
(***************************************************************************)
ChainLengths == {1, 2}

\* The input files: node capacities, one bandwidth for the self-loops and
\* one for the links between two nodes, self-loops without latency, one
\* latency for the links between two nodes, the ratio floor, the chain
\* length.
InputFiles ==
    {[capacity |-> [n \in Nodes |-> [t \in ResourceTypes |-> c[n]]],
      bandwidth |-> [l \in Links |-> IF l[1] = l[2] THEN b[1] ELSE b[2]],
      latency |-> [l \in Links |-> IF l[1] = l[2] THEN 0 ELSE lat],
      minimum_ratio_numerator |-> ratio,
      num_vnfs_per_request |-> k,
      resource_unit_cost |-> [n \in Nodes |-> [t \in ResourceTypes |-> 1]],
      bandwidth_unit_cost |-> [l \in Links |-> 0]] :
        c \in [Nodes -> 1..MaxCapacity],
        b \in (1..MaxBandwidth) \X (1..MaxBandwidth),
        lat \in 0..MaxLatency,
        ratio \in 0..RatioDenominator,
        k \in ChainLengths}

\* Every placement matrix over the nodes for chains of k VNFs
Matrices(k) ==
    [DOMAIN evaluated_requests -> [1..k -> {-1} \cup {index(n) : n \in Nodes}]]

\* No chromosome yet in a slot of the population; no operator applied yet
NoChromosome == <<>>
NoOp == [name |-> "none", slot |-> 0, valid_before |-> FALSE, changed |-> FALSE,
         assertion |-> "none", applied |-> 0]

(***************************************************************************)
(* Spec: one RequestAccepter and the accept calls made on it.  The         *)
(* accepter is built on the all-rejected placement                         *)
(* (RandomPlacementInitializationOperator) or on the placement a           *)
(* chromosome decodes to (RandomAcceptanceMutationOperator).               *)
(***************************************************************************)
UnknownRequest == 0

\* the value of a variable that a specification does not use
Unused == [pc |-> "unused"]

Init ==
    /\ input \in InputFiles
    /\ \E genes \in Matrices(input.num_vnfs_per_request) :
        /\ input.num_vnfs_per_request > 1 =>
               genes = placement_matrix(empty_placement)
        /\ accepter = RequestAccepter(decoding_function(genes))
    /\ last_call = [request |-> UnknownRequest, outcome |-> "none",
                    before |-> accepter]
    /\ population = <<>>
    /\ last_op = NoOp
    /\ codec = Unused
    /\ sel = Unused
    /\ ga = Unused

\* request_accepter.accept(request)
Accept(request) ==
    /\ \E result \in accept(accepter, request) :
        /\ accepter' = result.accepter
        /\ last_call' = [request |-> request,
                         outcome |-> result.outcome,
                         before |-> accepter]
    /\ UNCHANGED <<input, population, last_op, codec, sel, ga>>

Next == \E request \in Requests \cup {UnknownRequest} : Accept(request)

Spec == Init /\ [][Next]_vars

(***************************************************************************)
(* SpecOperators: a population of two chromosomes and the genetic          *)
(* operators applied to it in any order, as the generations of the         *)
(* driver apply them to the chromosomes it selects.  No initial            *)
(* population file is given: the initialization operator fills the         *)
(* population.  last_op records the operator applied last, the slot it     *)
(* was applied to, whether its operands were valid, whether its result     *)
(* differs from them, and the outcome of its assertion.                    *)
(***************************************************************************)
Slots == {1, 2}

InitOperators ==
    /\ input \in InputFiles
    /\ population = [i \in Slots |-> NoChromosome]
    /\ last_op = NoOp
    /\ accepter = RequestAccepter(empty_placement)
    /\ last_call = [request |-> UnknownRequest, outcome |-> "none",
                    before |-> accepter]
    /\ codec = Unused
    /\ sel = Unused
    /\ ga = Unused

\* GeneticAlgorithm._initialize_population: one more chromosome from the
\* initialization operator
InitializePopulation(i) ==
    /\ population[i] = NoChromosome
    /\ \A j \in Slots : j < i => population[j] # NoChromosome
    /\ \E chromosome \in RandomPlacementInitialization :
        population' = [population EXCEPT ![i] = chromosome]
    /\ last_op' = [name |-> "RandomPlacementInitialization", slot |-> i,
                   valid_before |-> TRUE, changed |-> TRUE,
                   assertion |-> "none", applied |-> 0]
    /\ UNCHANGED <<input, accepter, last_call, codec, sel, ga>>

\* the population is full, no assertion has ended the run and the run has
\* operators left to apply
Initialized ==
    /\ \A i \in Slots : population[i] # NoChromosome
    /\ last_op.assertion # "failed"
    /\ last_op.applied < MaxOperations

\* crossover_operator(parent1, parent2) on the chromosomes of the two slots,
\* in either order; the children take the slots of their parents.
Crossover(i, j) ==
    /\ Initialized
    /\ i # j
    /\ \E shuffled \in Shuffles(group_row_indexes_by_mutual_exclusivity(
                                    decoding_function(population[i]))) :
        \E children \in {MatrixRowSwapCrossover(population[i], population[j],
                                                shuffled)} :
            /\ population' = [s \in Slots |->
                                 IF s = i THEN children[1] ELSE children[2]]
            /\ last_op' = [name |-> "MatrixRowSwapCrossover", slot |-> i,
                           valid_before |->
                               /\ is_valid(decoding_function(population[i]))
                               /\ is_valid(decoding_function(population[j])),
                           changed |-> children # <<population[i],
                                                    population[j]>>,
                           assertion |-> "none",
                           applied |-> last_op.applied + 1]
    /\ UNCHANGED <<input, accepter, last_call, codec, sel, ga>>

\* RandomAcceptanceMutationOperator.__call__ on the chromosome of slot i.
\* A failed assertion ends the run.
AcceptanceMutation(i) ==
    /\ Initialized
    /\ \E drawn \in SUBSET rejected_requests(decoding_function(population[i])) :
        \E placement \in RandomAcceptanceMutationPlacements(population[i], drawn) :
            \E passed \in {is_valid(placement)} :
                /\ last_op' = [name |-> "RandomAcceptanceMutation", slot |-> i,
                               valid_before |->
                                   is_valid(decoding_function(population[i])),
                               changed |-> placement_matrix(placement)
                                               # population[i],
                               assertion |-> IF passed
                                             THEN "passed" ELSE "failed",
                               applied |-> last_op.applied + 1]
                /\ population' = IF passed
                                 THEN [population EXCEPT
                                          ![i] = placement_matrix(placement)]
                                 ELSE population
    /\ UNCHANGED <<input, accepter, last_call, codec, sel, ga>>

\* RandomRejectionMutationOperator.__call__ on the chromosome of slot i
RejectionMutation(i) ==
    /\ Initialized
    /\ \E drawn \in SUBSET FullyPlacedRows(population[i]) :
        \E mutated \in {RandomRejectionMutation(population[i], drawn)} :
            /\ population' = [population EXCEPT ![i] = mutated]
            /\ last_op' = [name |-> "RandomRejectionMutation", slot |-> i,
                           valid_before |->
                               is_valid(decoding_function(population[i])),
                           changed |-> mutated # population[i],
                           assertion |-> "none",
                           applied |-> last_op.applied + 1]
    /\ UNCHANGED <<input, accepter, last_call, codec, sel, ga>>

NextOperators ==
    \/ \E i \in Slots : InitializePopulation(i)
    \/ \E i, j \in Slots : Crossover(i, j)
    \/ \E i \in Slots : AcceptanceMutation(i)
    \/ \E i \in Slots : RejectionMutation(i)

SpecOperators == InitOperators /\ [][NextOperators]_vars

(***************************************************************************)
(* Properties of the accepter session (Spec).                              *)
(***************************************************************************)
\* the placement before the last accept call, and the one after it
PlacementBefore == last_call.before.current_placement
PlacementAfter == accepter.current_placement

\* the members of the mutually exclusive group of a request, read off the
\* requests themselves: a main request and its alternatives
GroupOf(r) ==
    LET main == IF isMainServiceRequest(r) THEN r
                ELSE CHOOSE m \in MainRequests :
                         r \in Range(alternative_requests(m))
    IN  {main} \cup Range(alternative_requests(main))

AtMostOneAcceptedPerGroup(d) ==
    \A m \in MainRequests :
        Cardinality({r \in GroupOf(m) : d[r] # None}) <= 1

\* accepted_main / accepted >= minimum ratio, for a placement that accepts
\* at least one request
RatioFloorHolds(d) ==
    Cardinality({r \in MainRequests : d[r] # None}) * RatioDenominator
        >= input.minimum_ratio_numerator
               * Cardinality({r \in Requests : d[r] # None})

NoneAccepted(d) == \A r \in Requests : d[r] = None

\* C1: when accept(r) on a rejected request of a valid placement returns
\* true, the new current placement is valid.
C1_AcceptKeepsPlacementValid ==
    (last_call.outcome = "True" /\ is_valid(PlacementBefore))
        => is_valid(PlacementAfter)

\* C2: after every accept call, and initially, the local residual tables of
\* the accepter equal the residuals of its committed placement.
C2_LocalResidualsMatchPlacement ==
    /\ accepter.remaining_resources_per_node
           = remaining_resources_per_node(PlacementAfter)
    /\ accepter.remaining_bandwidth_per_network_link
           = remaining_bandwidth_per_network_link(PlacementAfter)

\* C3: accept(r) on a rejected request returns false and leaves the
\* placement unchanged when another member of the group of r is accepted;
\* and an accept call on a placement with at most one accepted member per
\* group leaves at most one accepted member per group.
C3_GroupExclusivity ==
    /\ (/\ last_call.request \in Requests
        /\ PlacementBefore[last_call.request] = None
        /\ \E other \in GroupOf(last_call.request) \ {last_call.request} :
               PlacementBefore[other] # None)
           => (last_call.outcome = "False" /\ PlacementAfter = PlacementBefore)
    /\ (last_call.outcome # "none" /\ AtMostOneAcceptedPerGroup(PlacementBefore))
           => AtMostOneAcceptedPerGroup(PlacementAfter)

\* C3 witness: a rejected request was offered while another member of its
\* group was accepted, and accept returned false.
C3_Witness ==
    /\ last_call.request \in Requests
    /\ PlacementBefore[last_call.request] = None
    /\ \E other \in GroupOf(last_call.request) \ {last_call.request} :
           PlacementBefore[other] # None
    /\ last_call.outcome = "False"
    /\ AtMostOneAcceptedPerGroup(PlacementAfter)

\* the forecast accepted_main / (accepted + 1) < minimum ratio
ForecastBelowFloor(d) ==
    Cardinality({r \in MainRequests : d[r] # None}) * RatioDenominator
        < input.minimum_ratio_numerator
              * (Cardinality({r \in Requests : d[r] # None}) + 1)

\* C4: accept(r) of a rejected alternative request returns false when
\* accepted_main / (accepted + 1) is below the minimum ratio; the forecast
\* never refuses a main request; and an accept call on a placement that
\* accepts nothing or meets the floor gives a placement that accepts
\* nothing or meets the floor.
C4_MainRatioForecast ==
    /\ (/\ last_call.request \in Requests
        /\ ~isMainServiceRequest(last_call.request)
        /\ PlacementBefore[last_call.request] = None
        /\ ForecastBelowFloor(PlacementBefore))
           => (last_call.outcome = "False" /\ PlacementAfter = PlacementBefore)
    /\ \A main \in MainRequests :
           would_accepting_request_meet_minimum_main_request_ratio(accepter, main)
    /\ (/\ last_call.outcome # "none"
        /\ NoneAccepted(PlacementBefore) \/ RatioFloorHolds(PlacementBefore))
           => (NoneAccepted(PlacementAfter) \/ RatioFloorHolds(PlacementAfter))

\* C4 witness: a rejected alternative was offered with the forecast below a
\* positive floor and was refused, in a placement that meets the floor.
C4_Witness ==
    /\ last_call.request \in Requests
    /\ ~isMainServiceRequest(last_call.request)
    /\ PlacementBefore[last_call.request] = None
    /\ ~NoneAccepted(PlacementBefore)
    /\ RatioFloorHolds(PlacementBefore)
    /\ ForecastBelowFloor(PlacementBefore)
    /\ last_call.outcome = "False"

\* C5: a placement in which every request is rejected is valid, for every
\* minimum ratio in [0, 1].
C5_AllRejectedPlacementIsValid ==
    NoneAccepted(PlacementAfter) => is_valid(PlacementAfter)

(***************************************************************************)
(* The six conditions of validity, stated on the placement and the input.  *)
(***************************************************************************)
\* the nodes of the VNFs of an accepted request, and the links of its path
VnfNode(d, r, j) == d[r][j + 1]
PathLink(d, r, j) == <<d[r][j], d[r][j + 1]>>
Accepted(d) == {r \in Requests : d[r] # None}

\* summed demand of the VNFs placed on a node
DemandOnNode(d, n, t) ==
    Sum([v \in VNFs |-> resources_needed_by_resource_type(v)[t]],
        {v \in VNFs : v[1] \in Accepted(d) /\ VnfNode(d, v[1], v[2]) = n})

\* summed minimum bandwidth of the virtual links routed over a link
DemandOnLink(d, l) ==
    Sum([vl \in VirtualLinks |-> minimum_guaranteed_bandwidth(vl)],
        {vl \in VirtualLinks :
            vl[1] \in Accepted(d) /\ PathLink(d, vl[1], vl[2]) = l})

\* summed latency of the k+1 links of the path of an accepted request
PathLatency(d, r) ==
    Sum([j \in 1..(num_vnfs + 1) |-> input.latency[PathLink(d, r, j)]],
        1..(num_vnfs + 1))

ResourcesFit(d) ==
    \A n \in Nodes, t \in ResourceTypes :
        DemandOnNode(d, n, t) <= input.capacity[n][t]

BandwidthFits(d) == \A l \in Links : DemandOnLink(d, l) <= input.bandwidth[l]

LatencyFits(d) ==
    \A r \in Accepted(d) : PathLatency(d, r) <= maximum_tolerated_latency(r)

\* the sums of what is missing, over all links and over all accepted requests
TotalBandwidthShortage(d) ==
    Sum([l \in Links |-> Max(0, DemandOnLink(d, l) - input.bandwidth[l])], Links)

TotalExcessLatency(d) ==
    Sum([r \in Accepted(d) |->
            Max(0, PathLatency(d, r) - maximum_tolerated_latency(r))],
        Accepted(d))

\* a quantity of x >= 0 ticks is zero once rounded to six decimals: it is at
\* most half of 10^-6 (the tie goes to zero, the even multiple)
ZeroToSixDecimals(x) == 2 * x <= Resolution

Compatible(d) ==
    \A v \in VNFs :
        (v[1] \in Accepted(d) /\ v \in DOMAIN incompatible_nodes_per_vnf)
            => VnfNode(d, v[1], v[2]) \notin incompatible_nodes_per_vnf[v]

\* C6: for a placement with at least one accepted request, is_valid() is
\* true exactly when node resources, link bandwidth, path latency,
\* compatibility, group exclusivity and the main-ratio floor all hold, the
\* bandwidth and latency conditions taken as exact inequalities.
C6_ValidIffExactConditions ==
    ~NoneAccepted(PlacementAfter) =>
        (is_valid(PlacementAfter) <=>
            /\ ResourcesFit(PlacementAfter)
            /\ BandwidthFits(PlacementAfter)
            /\ LatencyFits(PlacementAfter)
            /\ Compatible(PlacementAfter)
            /\ AtMostOneAcceptedPerGroup(PlacementAfter)
            /\ RatioFloorHolds(PlacementAfter))

\* C6 (amended): for a placement with at least one accepted request,
\* is_valid() is true exactly when node resources, compatibility, group
\* exclusivity and the main-ratio floor hold exactly, and the bandwidth
\* shortage summed over all links and the excess latency summed over all
\* accepted requests are both zero once rounded to six decimals.
C6_ValidIffRoundedConditions ==
    ~NoneAccepted(PlacementAfter) =>
        (is_valid(PlacementAfter) <=>
            /\ ResourcesFit(PlacementAfter)
            /\ ZeroToSixDecimals(TotalBandwidthShortage(PlacementAfter))
            /\ ZeroToSixDecimals(TotalExcessLatency(PlacementAfter))
            /\ Compatible(PlacementAfter)
            /\ AtMostOneAcceptedPerGroup(PlacementAfter)
            /\ RatioFloorHolds(PlacementAfter))

\* C6 witness: a placement with an accepted request that is_valid() accepts
\* although a path exceeds its latency budget by less than the rounding.
C6_Witness ==
    /\ ~NoneAccepted(PlacementAfter)
    /\ is_valid(PlacementAfter)
    /\ ~LatencyFits(PlacementAfter)

\* the placement with one more request rejected
WithRejected(d, r) == [x \in Requests |-> IF x = r THEN None ELSE d[x]]

\* C8: if P is valid, P' is P with one accepted request rejected, and the
\* main-ratio floor holds for P' (or P' accepts nothing), then P' is valid.
C8_ValidityMonotoneInRejections ==
    \A r \in Accepted(PlacementAfter) :
        (/\ is_valid(PlacementAfter)
         /\ \/ NoneAccepted(WithRejected(PlacementAfter, r))
            \/ RatioFloorHolds(WithRejected(PlacementAfter, r)))
            => is_valid(WithRejected(PlacementAfter, r))

(***************************************************************************)
(* Properties of the genetic operators (SpecOperators).                    *)
(***************************************************************************)
\* the placement a slot of the population decodes to is valid
SlotIsValid(i) == is_valid(decoding_function(population[i]))

\* C7: RandomRejectionMutation applied to a chromosome that decodes to a
\* valid placement returns a chromosome that decodes to a valid placement
\* (a row of an accepted request replaced by -1 never invalidates).
C7_RejectionKeepsValid ==
    (last_op.name = "RandomRejectionMutation" /\ last_op.valid_before)
        => SlotIsValid(last_op.slot)

\* C9: the two children of MatrixRowSwapCrossover either both decode to
\* valid placements or are gene-wise equal to parent1 and parent2.
C9_CrossoverValidOrParents ==
    last_op.name = "MatrixRowSwapCrossover"
        => ((\A i \in Slots : SlotIsValid(i)) \/ ~last_op.changed)

\* C9 witness: a crossover swapped a group and returned two valid children
\* that are not its parents.
C9_Witness ==
    /\ last_op.name = "MatrixRowSwapCrossover"
    /\ last_op.changed
    /\ \A i \in Slots : SlotIsValid(i)

\* C10: no run of the operators ends on the assertion of
\* RandomAcceptanceMutation: the placement its accepter holds at the end is
\* valid.
C10_AcceptanceAssertionNeverFails == last_op.assertion # "failed"

(***************************************************************************)
(* SpecCodec: a chromosome matrix read from an initial population file is  *)
(* decoded into a placement (decoding_function) and the placement is       *)
(* encoded again (placement_matrix).                                       *)
(***************************************************************************)
\* the input files with the roomiest substrate: every ratio floor and chain
\* length
CodecInputs ==
    {f \in InputFiles :
        /\ \A n \in Nodes : \A t \in ResourceTypes :
               f.capacity[n][t] = MaxCapacity
        /\ \A l \in Links : f.bandwidth[l] = MaxBandwidth
        /\ \A l \in Links : f.latency[l] = 0}

InitCodec ==
    /\ input \in CodecInputs
    /\ \E genes \in Matrices(input.num_vnfs_per_request) :
        codec = [pc |-> "matrix", genes |-> genes,
                 placement |-> empty_placement, encoded |-> genes]
    /\ accepter = RequestAccepter(empty_placement)
    /\ last_call = [request |-> UnknownRequest, outcome |-> "none",
                    before |-> accepter]
    /\ population = <<>>
    /\ last_op = NoOp
    /\ sel = Unused
    /\ ga = Unused

\* Chromosome.encoded_data: decoding_function(genes)
Decode ==
    /\ codec.pc = "matrix"
    /\ codec' = [pc |-> "decoded", genes |-> codec.genes,
                 placement |-> decoding_function(codec.genes),
                 encoded |-> codec.encoded]
    /\ UNCHANGED <<input, accepter, last_call, population, last_op, sel, ga>>

\* placement.placement_matrix
Encode ==
    /\ codec.pc = "decoded"
    /\ codec' = [pc |-> "encoded", genes |-> codec.genes,
                 placement |-> codec.placement,
                 encoded |-> placement_matrix(codec.placement)]
    /\ UNCHANGED <<input, accepter, last_call, population, last_op, sel, ga>>

NextCodec == Decode \/ Encode

SpecCodec == InitCodec /\ [][NextCodec]_vars

(***************************************************************************)
(* Properties of the matrix representation (SpecCodec).                    *)
(***************************************************************************)
\* a row that rejects its request, and a row that places every VNF
AllMinusOne(row) == \A c \in DOMAIN row : row[c] = -1
AllPlaced(row) == \A c \in DOMAIN row : row[c] >= 0
WellFormed(genes) ==
    \A i \in DOMAIN genes : AllMinusOne(genes[i]) \/ AllPlaced(genes[i])

\* the matrix with every partially negative row replaced by a rejected row
RejectMalformedRows(genes) ==
    [i \in DOMAIN genes |->
        IF AllPlaced(genes[i]) THEN genes[i]
        ELSE [c \in DOMAIN genes[i] |-> -1]]

\* C12: a matrix whose decoded placement is valid is decoded and encoded
\* again into the same matrix.
C12_RoundTripOfValidMatrix ==
    (codec.pc = "encoded" /\ is_valid(codec.placement))
        => codec.encoded = codec.genes

\* C12 (amended): a matrix in which every row is all -1 or all non-negative
\* is decoded and encoded again into the same matrix, valid or not; a
\* partially negative row comes back as a row of -1.
C12_RoundTripOfWellFormedMatrix ==
    codec.pc = "encoded" =>
        /\ codec.encoded = RejectMalformedRows(codec.genes)
        /\ WellFormed(codec.genes) => codec.encoded = codec.genes

C12_Witness ==
    /\ codec.pc = "encoded"
    /\ WellFormed(codec.genes)
    /\ is_valid(codec.placement)
    /\ \E i \in DOMAIN codec.genes : AllPlaced(codec.genes[i])
    /\ \E i \in DOMAIN codec.genes : AllMinusOne(codec.genes[i])
    /\ codec.encoded = codec.genes

(***************************************************************************)
(* Residuals of the committed placement across an accept call (Spec).      *)
(***************************************************************************)
\* C13: an accept call that returns true leaves every node's remaining
\* resources and every link's remaining bandwidth in the current placement
\* at most what they were before the call; one that returns false leaves
\* the current placement, hence every residual, unchanged.
C13_ResidualsMonotone ==
    /\ last_call.outcome = "True" =>
        /\ \A n \in Nodes : \A t \in ResourceTypes :
               remaining_resources_per_node(PlacementAfter)[n][t]
                   <= remaining_resources_per_node(PlacementBefore)[n][t]
        /\ \A l \in Links :
               remaining_bandwidth_per_network_link(PlacementAfter)[l]
                   <= remaining_bandwidth_per_network_link(PlacementBefore)[l]
    /\ last_call.outcome = "False" =>
        /\ PlacementAfter = PlacementBefore
        /\ remaining_resources_per_node(PlacementAfter)
               = remaining_resources_per_node(PlacementBefore)
        /\ remaining_bandwidth_per_network_link(PlacementAfter)
               = remaining_bandwidth_per_network_link(PlacementBefore)

C13_Witness ==
    /\ last_call.outcome = "True"
    /\ accepted_requests(PlacementBefore) # {}
    /\ \E n \in Nodes : \E t \in ResourceTypes :
           remaining_resources_per_node(PlacementAfter)[n][t]
               < remaining_resources_per_node(PlacementBefore)[n][t]
    /\ \E l \in Links :
           remaining_bandwidth_per_network_link(PlacementAfter)[l]
               < remaining_bandwidth_per_network_link(PlacementBefore)[l]

(***************************************************************************)
(* Floating point.  The selection operators compute with Python floats:    *)
(* binary floating point, every operation rounded to the nearest           *)
(* representable value, a tie going to the even significand.  The model    *)
(* keeps that arithmetic with a significand of Mantissa bits; a float is   *)
(* the integer number of units of 2^-FracBits it holds (gradual underflow  *)
(* below the unit).                                                        *)
(***************************************************************************)
Mantissa == 4               \* bits of the significand of a float
FracBits == 6               \* the smallest positive float is 2^-FracBits

FloatUnit == 2 ^ FracBits   \* the float 1.0, in units

RECURSIVE Exponent(_, _, _)
\* the least j with a / den < 2^(Mantissa + j): floats of that size are
\* 2^j units apart
Exponent(a, den, j) ==
    IF a < (2 ^ (Mantissa + j)) * den THEN j ELSE Exponent(a, den, j + 1)

\* The float nearest to num / den units (den > 0), ties to even
Fl(num, den) ==
    LET a == IF num < 0 THEN -num ELSE num
        spacing == (2 ^ Exponent(a, den, 0)) * den
        q == a \div spacing
        r == a % spacing
        m == IF 2 * r < spacing THEN q
             ELSE IF 2 * r > spacing THEN q + 1
             ELSE IF q % 2 = 0 THEN q ELSE q + 1
        n == m * (spacing \div den)
    IN  IF num < 0 THEN -n ELSE n

\* float(i) of an integer, and the float operations x + y, x - y, x * y and
\* x / y
FromInt(i) == Fl(i * FloatUnit, 1)
FAdd(x, y) == Fl(x + y, 1)
FSub(x, y) == Fl(x - y, 1)
FMul(x, y) == Fl(x * y, FloatUnit)
FDiv(x, y) == IF y < 0 THEN Fl(-(x * FloatUnit), -y) ELSE Fl(x * FloatUnit, y)

\* x ** k for an integer k >= 0, rounded once
FPow(x, k) == IF k = 0 THEN FloatUnit ELSE Fl(x ^ k, FloatUnit ^ (k - 1))

\* Python's round(x): the nearest integer, a tie going to the even one
PyRound(x) ==
    LET a == IF x < 0 THEN -x ELSE x
        q == a \div FloatUnit
        r == a % FloatUnit
        n == IF 2 * r < FloatUnit THEN q
             ELSE IF 2 * r > FloatUnit THEN q + 1
             ELSE IF q % 2 = 0 THEN q ELSE q + 1
    IN  IF x < 0 THEN -n ELSE n

RECURSIVE FSum(_)
\* Python's sum(sequence) of floats: added one by one from the left
FSum(s) == IF s = <<>> THEN 0 ELSE FAdd(FSum(SubSeq(s, 1, Len(s) - 1)), s[Len(s)])

\* the floats from 0 up to limit units
Floats(limit) == {x \in 0..limit : Fl(x, 1) = x}

(***************************************************************************)
(* The selection operators.  A population is given by the sequence of the  *)
(* fitness values of its chromosomes; a selection is the sequence of the   *)
(* positions of the chromosomes selected.  A call returns                  *)
(* [error, probabilities, selected]: the exception it raised ("none" when  *)
(* it returned), the probabilities it handed to the sampling, the          *)
(* selection.                                                              *)
(***************************************************************************)
\* sorted(population) and sorted(population, reverse=True): both stable
sorted_population(fitness, reverse) ==
    LET before(j, i) ==
            \/ IF reverse THEN fitness[j] > fitness[i]
                          ELSE fitness[j] < fitness[i]
            \/ fitness[j] = fitness[i] /\ j < i
        position(i) == 1 + Cardinality({j \in DOMAIN fitness : before(j, i)})
    IN  [k \in DOMAIN fitness |->
            CHOOSE i \in DOMAIN fitness : position(i) = k]

RECURSIVE PointersBelow(_, _, _, _, _)
\* the while loop of _stochastic_universal_sampling
PointersBelow(pointer, probability_sum, step, chromosome, selected) ==
    IF pointer < probability_sum
    THEN PointersBelow(FAdd(pointer, step), probability_sum, step,
                       chromosome, Append(selected, chromosome))
    ELSE [pointer |-> pointer, selected |-> selected]

RECURSIVE SamplingLoop(_, _, _, _, _, _, _)
\* the for loop of _stochastic_universal_sampling over
\* zip(chromosomes, selection_probabilities)
SamplingLoop(chromosomes, selection_probabilities, step, i, probability_sum, pointer, selected) ==
    IF i > Len(chromosomes) \/ i > Len(selection_probabilities)
    THEN selected
    ELSE LET sum == FAdd(probability_sum, selection_probabilities[i])
             after == PointersBelow(pointer, sum, step, chromosomes[i],
                                    selected)
         IN  SamplingLoop(chromosomes, selection_probabilities, step, i + 1,
                          sum, after.pointer, after.selected)

\* the offsets random.uniform(0, 1 / selection_size) can return that lie
\* below 1 / selection_size
Offsets(selection_size) ==
    IF selection_size = 0 THEN {0}
    ELSE {x \in Floats(FloatUnit) : x < Fl(FloatUnit, selection_size)}

\* _stochastic_universal_sampling, for the offset that random.uniform draws
stochastic_universal_sampling(chromosomes, selection_probabilities, selection_size, offset) ==
    IF PyRound(FSum(selection_probabilities)) # 1
    THEN [error |-> "ValueError", probabilities |-> selection_probabilities,
          selected |-> <<>>]
    ELSE IF selection_size = 0
    THEN [error |-> "ZeroDivisionError",
          probabilities |-> selection_probabilities, selected |-> <<>>]
    ELSE [error |-> "none", probabilities |-> selection_probabilities,
          selected |-> SamplingLoop(chromosomes, selection_probabilities,
                                    Fl(FloatUnit, selection_size), 1, 0,
                                    offset, <<>>)]

\* LinearRankSelectionOperator.__call__
LinearRankSelection(fitness, selection_size, offset) ==
    LET sorted == sorted_population(fitness, FALSE)
        rank_sum == Fl(Len(sorted) * (Len(sorted) + 1) * FloatUnit, 2)
        selection_probabilities ==
            [rank \in DOMAIN sorted |-> FDiv(FromInt(rank), rank_sum)]
    IN  stochastic_universal_sampling(sorted, selection_probabilities,
                                      selection_size, offset)

\* the selection probability ExponentialRankSelectionOperator gives a rank
exponential_rank_probability(pressure_parameter, rank, selection_size) ==
    FDiv(FMul(FSub(pressure_parameter, FloatUnit),
              FPow(pressure_parameter, rank - 1)),
         FSub(FPow(pressure_parameter, selection_size), FloatUnit))

\* ExponentialRankSelectionOperator.__call__
ExponentialRankSelection(pressure_parameter, fitness, selection_size, offset) ==
    IF selection_size = 0
    THEN [error |-> "none", probabilities |-> <<>>, selected |-> <<>>]
    ELSE LET sorted == sorted_population(fitness, TRUE)
             selection_probabilities ==
                 [rank \in DOMAIN sorted |->
                     exponential_rank_probability(pressure_parameter, rank,
                                                  selection_size)]
         IN  stochastic_universal_sampling(sorted, selection_probabilities,
                                           selection_size, offset)

\* TournamentSelection.__init__: the default tournament_size
tournament_size == 2

\* the candidates random.choices can draw for selection_size tournaments
Tournaments(fitness, selection_size) ==
    [1..selection_size -> [1..tournament_size -> DOMAIN fitness]]

\* max(candidates): the first of the fittest candidates
winner(fitness, candidates) ==
    candidates[CHOOSE i \in DOMAIN candidates :
                   /\ \A j \in DOMAIN candidates :
                          fitness[candidates[j]] <= fitness[candidates[i]]
                   /\ \A j \in DOMAIN candidates :
                          fitness[candidates[j]] = fitness[candidates[i]]
                              => i <= j]

\* TournamentSelection.__call__, for the candidates drawn
TournamentSelection(fitness, selection_size, drawn) ==
    [error |-> "none", probabilities |-> <<>>,
     selected |-> [t \in 1..selection_size |-> winner(fitness, drawn[t])]]

(***************************************************************************)
(* SpecSelection: one call of a selection operator, or of the sampling     *)
(* itself, on a population of up to MaxPopulation chromosomes.             *)
(***************************************************************************)
MaxPopulation == 3          \* chromosomes in a population
MaxFitness == 1             \* fitness values range over 0..MaxFitness

\* The pressure parameters: 1/4, 1/2 and the default 0.9 as a float
PressureParameters ==
    {Fl(FloatUnit, 4), Fl(FloatUnit, 2), Fl(9 * FloatUnit, 10)}

\* The selection probabilities of up to MaxPopulation chromosomes that sum
\* to 1 exactly
ProbabilityVectors ==
    UNION {{v \in [1..m -> Floats(FloatUnit)] : SumSeq(v) = FloatUnit} :
              m \in 1..MaxPopulation}

Populations == UNION {[1..m -> 0..MaxFitness] : m \in 1..MaxPopulation}

Call(operator, fitness, selection_size, pressure_parameter, probabilities) ==
    [pc |-> "call", operator |-> operator, fitness |-> fitness,
     selection_size |-> selection_size,
     pressure_parameter |-> pressure_parameter,
     probabilities |-> probabilities, offset |-> 0, selected |-> <<>>,
     error |-> "none"]

Returned(result, offset) ==
    [pc |-> "returned", operator |-> sel.operator, fitness |-> sel.fitness,
     selection_size |-> sel.selection_size,
     pressure_parameter |-> sel.pressure_parameter,
     probabilities |-> result.probabilities, offset |-> offset,
     selected |-> result.selected, error |-> result.error]

InitSelection ==
    /\ input \in CodecInputs
    /\ input.num_vnfs_per_request = 1
    /\ input.minimum_ratio_numerator = 0
    /\ \E selection_size \in 0..MaxPopulation :
        \/ \E probabilities \in ProbabilityVectors :
               sel = Call("Sampling", [i \in DOMAIN probabilities |-> 0],
                          selection_size, 0, probabilities)
        \/ \E fitness \in Populations :
               sel \in {Call("LinearRank", fitness, selection_size, 0, <<>>),
                        Call("Tournament", fitness, selection_size, 0, <<>>)}
        \/ \E fitness \in Populations :
               \E pressure_parameter \in PressureParameters :
                   sel = Call("ExponentialRank", fitness, selection_size,
                              pressure_parameter, <<>>)
    /\ accepter = RequestAccepter(empty_placement)
    /\ last_call = [request |-> UnknownRequest, outcome |-> "none",
                    before |-> accepter]
    /\ population = <<>>
    /\ last_op = NoOp
    /\ codec = Unused
    /\ ga = Unused

\* _stochastic_universal_sampling(population, probabilities, selection_size)
Sampling ==
    /\ sel.pc = "call"
    /\ sel.operator = "Sampling"
    /\ \E offset \in Offsets(sel.selection_size) :
        sel' = Returned(stochastic_universal_sampling(
                            [i \in DOMAIN sel.fitness |-> i],
                            sel.probabilities, sel.selection_size, offset),
                        offset)
    /\ UNCHANGED <<input, accepter, last_call, population, last_op, codec, ga>>

\* LinearRankSelectionOperator()(population, selection_size)
LinearRank ==
    /\ sel.pc = "call"
    /\ sel.operator = "LinearRank"
    /\ \E offset \in Offsets(sel.selection_size) :
        sel' = Returned(LinearRankSelection(sel.fitness, sel.selection_size,
                                            offset),
                        offset)
    /\ UNCHANGED <<input, accepter, last_call, population, last_op, codec, ga>>

\* ExponentialRankSelectionOperator(alpha)(population, selection_size)
ExponentialRank ==
    /\ sel.pc = "call"
    /\ sel.operator = "ExponentialRank"
    /\ \E offset \in Offsets(sel.selection_size) :
        sel' = Returned(ExponentialRankSelection(sel.pressure_parameter,
                                                 sel.fitness,
                                                 sel.selection_size, offset),
                        offset)
    /\ UNCHANGED <<input, accepter, last_call, population, last_op, codec, ga>>

\* TournamentSelection()(population, selection_size)
Tournament ==
    /\ sel.pc = "call"
    /\ sel.operator = "Tournament"
    /\ \E drawn \in Tournaments(sel.fitness, sel.selection_size) :
        sel' = Returned(TournamentSelection(sel.fitness, sel.selection_size,
                                            drawn), 0)
    /\ UNCHANGED <<input, accepter, last_call, population, last_op, codec, ga>>

NextSelection == Sampling \/ LinearRank \/ ExponentialRank \/ Tournament

SpecSelection == InitSelection /\ [][NextSelection]_vars

(***************************************************************************)
(* Properties of the selection operators (SpecSelection).                  *)
(***************************************************************************)
\* C19: given probabilities that sum to 1, a selection size N >= 1 and an
\* offset below 1/N, the sampling returns exactly N chromosomes of the
\* population, and every chromosome of probability >= 1/N is among them.
C19_SamplingSelectsExactlyN ==
    (sel.pc = "returned" /\ sel.operator = "Sampling"
        /\ sel.selection_size >= 1) =>
        /\ sel.error = "none"
        /\ Len(sel.selected) = sel.selection_size
        /\ Range(sel.selected) \subseteq DOMAIN sel.fitness
        /\ \A i \in DOMAIN sel.probabilities :
               sel.probabilities[i] * sel.selection_size >= FloatUnit
                   => i \in Range(sel.selected)

\* the distance of the sum of the probabilities from 1, in units
DistanceFromOne(probabilities) ==
    IF SumSeq(probabilities) >= FloatUnit
    THEN SumSeq(probabilities) - FloatUnit
    ELSE FloatUnit - SumSeq(probabilities)

\* the rounding of the probabilities can move their sum away from 1 by
\* the distance between two floats next to 1 for each of them
FloatTolerance(probabilities) ==
    Len(probabilities) * (FloatUnit \div (2 ^ (Mantissa - 1)))

\* C20: the probabilities the exponential rank selection hands to the
\* sampling sum to 1, for every pressure parameter, population size and
\* selection size N >= 1.
C20_ExponentialRankSumsToOne ==
    (sel.pc = "returned" /\ sel.operator = "ExponentialRank"
        /\ sel.selection_size >= 1) =>
        DistanceFromOne(sel.probabilities) <= FloatTolerance(sel.probabilities)


(***************************************************************************)
(* Profit and fitness (vnf_placement.py, fitness_function.py).  The unit   *)
(* costs are read from the input file; in the input files of the search    *)
(* every resource unit of every node costs 1 and bandwidth costs nothing    *)
(* (the default of NetworkLink), so the profit is an integer and its float *)
(* is exact.                                                               *)
(***************************************************************************)
\* NetworkNode.unit_cost_per_resource_type, NetworkLink.bandwidth_unit_cost
unit_cost_per_resource_type(n) == input.resource_unit_cost[n]
bandwidth_unit_cost(l) == input.bandwidth_unit_cost[l]

total_revenue(d) == Sum([r \in Requests |-> revenue(r)], accepted_requests(d))

total_cost_per_node(d) ==
    [n \in employed_nodes(d) |->
        Sum([t \in ResourceTypes |->
                allocated_resources_per_node(d)[n][t]
                    * unit_cost_per_resource_type(n)[t]],
            ResourceTypes)]

total_node_costs(d) == Sum(total_cost_per_node(d), employed_nodes(d))

total_bandwidth_cost_per_network_link(d) ==
    [l \in Links |->
        allocated_bandwidth_per_network_link(d)[l] * bandwidth_unit_cost(l)]

total_bandwidth_cost(d) == Sum(total_bandwidth_cost_per_network_link(d), Links)

\* A faulty variant of total_costs that leaves the bandwidth cost out
total_costs_without_bandwidth(d) == total_node_costs(d)

total_costs(d) == total_node_costs(d) + total_bandwidth_cost(d)

\* VNFChainPlacement.profit
profit(d) == total_revenue(d) - total_costs(d)

\* Config.profit_weight
profit_weight == 1

\* VNFPlacementFitnessFunction._objective_function
objective_function(d) == profit_weight * profit(d)

(***************************************************************************)
(* The objects of a run of the genetic algorithm.  Python lists,           *)
(* placements and chromosomes are objects with an identity: a heap holds   *)
(* them, and a reference is a position in the heap.                        *)
(*   lists[l]        the value of a list of rows (genes, or the memoized   *)
(*                   placement_matrix of a placement)                      *)
(*   placements[p]   designated_nodes_per_request and the reference of     *)
(*                   the memoized placement_matrix (NoRef: not computed)   *)
(*   chromosomes[c]  the reference of genes, fitness_value and the         *)
(*                   reference of the cached encoded_data (NoRef: not      *)
(*                   computed)                                             *)
(***************************************************************************)
NoRef == 0

EmptyHeap == [lists |-> <<>>, placements |-> <<>>, chromosomes |-> <<>>]

\* s with its i-th element replaced by v
Put(s, i, v) == [j \in DOMAIN s |-> IF j = i THEN v ELSE s[j]]

\* a new list object holding matrix; its reference is Len(h.lists) + 1
NewList(h, matrix) ==
    [lists |-> Append(h.lists, matrix), placements |-> h.placements,
     chromosomes |-> h.chromosomes]

\* MultiFlavouredVNFChainPlacement(designated_nodes_per_request, ...): a new
\* placement object, nothing memoized
NewPlacement(h, d) ==
    [lists |-> h.lists,
     placements |-> Append(h.placements, [designated |-> d, memo |-> NoRef]),
     chromosomes |-> h.chromosomes]

\* Chromosome.__init__(genes, fitness_value, ...): a new chromosome object
\* whose genes are the list object genes_ref
NewChromosome(h, genes_ref, fitness_value, encoded_data) ==
    [lists |-> h.lists, placements |-> h.placements,
     chromosomes |-> Append(h.chromosomes,
                            [genes |-> genes_ref,
                             fitness_value |-> fitness_value,
                             encoded_data |-> encoded_data])]

\* the value of the genes of chromosome c
genes_of(h, c) == h.lists[h.chromosomes[c].genes]

\* Chromosome.encoded_data (cached_property): the heap after the access;
\* the first access decodes the genes and caches the placement
encoded_data(h, c) ==
    IF h.chromosomes[c].encoded_data # NoRef THEN h
    ELSE LET with == NewPlacement(h, decoding_function(genes_of(h, c)))
         IN  [lists |-> with.lists, placements |-> with.placements,
              chromosomes |->
                  Put(with.chromosomes, c,
                      [genes |-> h.chromosomes[c].genes,
                       fitness_value |-> h.chromosomes[c].fitness_value,
                       encoded_data |-> Len(with.placements)])]

\* VNFChainPlacement.placement_matrix (cached_property): the heap after the
\* access; the first access encodes the placement and memoizes the list
memoized_placement_matrix(h, p) ==
    IF h.placements[p].memo # NoRef THEN h
    ELSE LET with == NewList(h, placement_matrix(h.placements[p].designated))
         IN  [lists |-> with.lists,
              placements |->
                  Put(with.placements, p,
                      [designated |-> h.placements[p].designated,
                       memo |-> Len(with.lists)]),
              chromosomes |-> with.chromosomes]

\* Chromosome.__deepcopy__: the genes are copied into a new list, the
\* fitness is copied, the cached encoded_data is shared with the original
deepcopy(h, c) ==
    LET with == NewList(h, genes_of(h, c))
    IN  NewChromosome(with, Len(with.lists), h.chromosomes[c].fitness_value,
                      h.chromosomes[c].encoded_data)

\* VNFPlacementFitnessFunction.__call__ on a chromosome whose encoded_data
\* is cached
fitness_function(h, c) ==
    objective_function(h.placements[h.chromosomes[c].encoded_data].designated)


(***************************************************************************)
(* The steps of GeneticAlgorithm.run on the heap.  A step with random      *)
(* draws is the set of its outcomes; an outcome holds the heap after the   *)
(* step, the chromosomes it returns and the exception it raised.           *)
(***************************************************************************)
\* the placements RandomPlacementInitializationOperator can end with
InitializationPlacements ==
    {final.current_placement :
        final \in AcceptAll(RequestAccepter(empty_placement), Requests)}

\* RandomPlacementInitializationOperator.__call__: the chromosome's genes
\* are the list memoized by the accepter's final placement
initialization_operator(h) ==
    {LET placed == NewPlacement(h, d)
         encoded == memoized_placement_matrix(placed, Len(placed.placements))
         made == NewChromosome(encoded, Len(encoded.lists), 0, NoRef)
     IN  [h |-> made, chromosome |-> Len(made.chromosomes)] :
        d \in InitializationPlacements}

RECURSIVE parse_initial_population_file(_, _, _)
\* _parse_initial_population_file: one Chromosome(genes) per row, from row i
parse_initial_population_file(h, rows, i) ==
    IF i > Len(rows) THEN [h |-> h, chromosomes |-> <<>>]
    ELSE LET listed == NewList(h, rows[i])
             made == NewChromosome(listed, Len(listed.lists), 0, NoRef)
             rest == parse_initial_population_file(made, rows, i + 1)
         IN  [h |-> rest.h,
              chromosomes |-> <<Len(made.chromosomes)>> \o rest.chromosomes]

RECURSIVE fill_population(_, _, _)
\* the while loop of _initialize_population
fill_population(h, initial_population, population_size) ==
    IF Len(initial_population) >= population_size
    THEN {[h |-> h, population |-> initial_population]}
    ELSE UNION {fill_population(made.h,
                                Append(initial_population, made.chromosome),
                                population_size) :
                    made \in initialization_operator(h)}

\* GeneticAlgorithm._initialize_population
initialize_population(h, initial_population, population_size) ==
    fill_population(h,
                    SubSeq(initial_population, 1,
                           IF Len(initial_population) < population_size
                           THEN Len(initial_population) ELSE population_size),
                    population_size)

\* GeneticAlgorithm._repair_population with the default repair_operators,
\* [NoOpRepairOperator()]: the same chromosomes in a new list
repair_population(chromosomes) == chromosomes

RECURSIVE evaluate_population(_, _, _)
\* GeneticAlgorithm._evaluate_population, from the i-th chromosome
evaluate_population(h, chromosomes, i) ==
    IF i > Len(chromosomes) THEN h
    ELSE LET c == chromosomes[i]
             decoded == encoded_data(h, c)
             evaluated ==
                 [lists |-> decoded.lists, placements |-> decoded.placements,
                  chromosomes |->
                      Put(decoded.chromosomes, c,
                          [genes |-> decoded.chromosomes[c].genes,
                           fitness_value |-> fitness_function(decoded, c),
                           encoded_data |-> decoded.chromosomes[c].encoded_data])]
         IN  evaluate_population(evaluated, chromosomes, i + 1)

\* the fitness values of a list of chromosomes, by position
fitness_values(h, chromosomes) ==
    [i \in DOMAIN chromosomes |-> h.chromosomes[chromosomes[i]].fitness_value]

\* s[:n]
Take(s, n) == SubSeq(s, 1, IF n < Len(s) THEN n ELSE Len(s))

\* A faulty variant of _select_elite that keeps the chromosomes of least
\* fitness
select_least_fit(h, chromosomes, num_elites) ==
    LET order == sorted_population(fitness_values(h, chromosomes), TRUE)
    IN  Take([k \in DOMAIN order |-> chromosomes[order[Len(order) + 1 - k]]],
             num_elites)

\* GeneticAlgorithm._select_elite: select_best is heapq.nlargest, the
\* chromosomes by decreasing fitness, equal ones in their order
select_elite(h, chromosomes, num_elites) ==
    LET order == sorted_population(fitness_values(h, chromosomes), TRUE)
    IN  Take([k \in DOMAIN order |-> chromosomes[order[k]]], num_elites)

\* max(population): the first of the chromosomes of greatest fitness_value
fittest(h, chromosomes) ==
    chromosomes[CHOOSE i \in DOMAIN chromosomes :
        /\ \A j \in DOMAIN chromosomes :
               h.chromosomes[chromosomes[j]].fitness_value
                   <= h.chromosomes[chromosomes[i]].fitness_value
        /\ \A j \in DOMAIN chromosomes :
               h.chromosomes[chromosomes[j]].fitness_value
                   = h.chromosomes[chromosomes[i]].fitness_value => i <= j]

\* the returns of the configured selection operator over its random draws:
\* the exception raised and the positions selected
selection_operator(settings, fitness, selection_size) ==
    LET outcome(result) == [error |-> result.error, selected |-> result.selected]
    IN  IF settings.selection_operator = "LinearRankSelectionOperator"
        THEN {outcome(LinearRankSelection(fitness, selection_size, offset)) :
                 offset \in Offsets(selection_size)}
        ELSE IF settings.selection_operator = "ExponentialRankSelectionOperator"
        THEN {outcome(ExponentialRankSelection(settings.pressure_parameter,
                                               fitness, selection_size,
                                               offset)) :
                 offset \in Offsets(selection_size)}
        ELSE {outcome(TournamentSelection(fitness, selection_size, drawn)) :
                 drawn \in Tournaments(fitness, selection_size)}

\* GeneticAlgorithm._select_parents: the parents, or the exception
select_parents(h, settings, chromosomes) ==
    LET selection_size == settings.population_size - settings.num_elites
    IN  {[error |-> result.error,
          parents |-> Take([k \in DOMAIN result.selected |->
                               chromosomes[result.selected[k]]],
                           selection_size)] :
            result \in selection_operator(settings,
                                          fitness_values(h, chromosomes),
                                          selection_size)}


\* the orders random.shuffle can give a list, equal elements included
ShuffledLists(s) ==
    {[i \in DOMAIN s |-> s[pi[i]]] : pi \in Permutations(DOMAIN s)}

\* zip_longest(iterator, iterator, fillvalue=parents[0]): consecutive
\* pairs, the last one filled with the first parent
Pairs(parents) ==
    [k \in 1..((Len(parents) + 1) \div 2) |->
        <<parents[2 * k - 1],
          IF 2 * k <= Len(parents) THEN parents[2 * k] ELSE parents[1]>>]

\* the loop of MatrixRowSwapCrossoverOperator.__call__ ends with a break:
\* some group gives two valid children
RowSwapBreaks(parent1, parent2, groups) ==
    \E i \in DOMAIN groups :
        LET children == swap_elements_inside_interval(
                            parent1, parent2,
                            SeqMin(groups[i]), SeqMax(groups[i]) + 1)
        IN  /\ AnyGeneSet(parent1, parent2, groups[i])
            /\ is_valid(decoding_function(children[1]))
            /\ is_valid(decoding_function(children[2]))

\* MatrixRowSwapCrossoverOperator.__call__ on two chromosomes: after a
\* break the children are new chromosomes that cache the placement decoded
\* from their genes, otherwise they are deep copies of the parents
crossover_operator(h, parent1, parent2, shuffled) ==
    LET accessed == encoded_data(h, parent1)
        genes1 == genes_of(accessed, parent1)
        genes2 == genes_of(accessed, parent2)
        swapped == RowSwapLoop(genes1, genes2, shuffled)
        child(from, genes) ==
            LET listed == NewList(from, genes)
                placed == NewPlacement(listed, decoding_function(genes))
            IN  NewChromosome(placed, Len(placed.lists), 0,
                              Len(placed.placements))
        first == child(accessed, swapped[1])
        second == child(first, swapped[2])
        copy1 == deepcopy(accessed, parent1)
        copy2 == deepcopy(copy1, parent2)
    IN  IF RowSwapBreaks(genes1, genes2, shuffled)
        THEN [h |-> second,
              children |-> <<Len(first.chromosomes), Len(second.chromosomes)>>]
        ELSE [h |-> copy2,
              children |-> <<Len(copy1.chromosomes), Len(copy2.chromosomes)>>]

\* the else branch of the loop of _perform_crossovers
deepcopy_pair(h, parent1, parent2) ==
    LET copy1 == deepcopy(h, parent1)
        copy2 == deepcopy(copy1, parent2)
    IN  [h |-> copy2,
         children |-> <<Len(copy1.chromosomes), Len(copy2.chromosomes)>>]

\* the orders in which the crossover can try the groups of rows
GroupOrders == Shuffles(group_row_indexes_by_mutual_exclusivity(empty_placement))

RECURSIVE crossover_pairs(_, _, _, _)
\* the loop of _perform_crossovers from the k-th pair: for every pair the
\* draw random.random() < crossover_probability and the crossover's shuffle
crossover_pairs(h, pairs, k, children) ==
    IF k > Len(pairs) THEN {[h |-> h, children |-> children]}
    ELSE UNION {crossover_pairs(made.h, pairs, k + 1,
                                children \o made.children) :
                    made \in {deepcopy_pair(h, pairs[k][1], pairs[k][2])}
                             \cup {crossover_operator(h, pairs[k][1],
                                                      pairs[k][2], shuffled) :
                                      shuffled \in GroupOrders}}

\* GeneticAlgorithm._perform_crossovers
perform_crossovers(h, parents) ==
    IF parents = <<>> THEN {[h |-> h, children |-> <<>>]}
    ELSE UNION {{[h |-> made.h,
                  children |-> Take(made.children, Len(parents))] :
                    made \in crossover_pairs(h, Pairs(shuffled), 1, <<>>)} :
                shuffled \in ShuffledLists(parents)}

\* the placements the accepter of RandomAcceptanceMutationOperator can end
\* with on the placement d, over the draws of the requests to accept, their
\* order and the nodes chosen
AcceptanceMutationPlacements(d) ==
    UNION {{final.current_placement :
               final \in AcceptAll(RequestAccepter(d), drawn)} :
           drawn \in SUBSET rejected_requests(d)}

\* RandomAcceptanceMutationOperator.__call__: the accepter's placement is
\* the chromosome's cached placement when no request was accepted and a new
\* placement otherwise; the genes of the mutated chromosome are the list
\* memoized by that placement
acceptance_mutation(h, c) ==
    LET accessed == encoded_data(h, c)
        p == accessed.chromosomes[c].encoded_data
        d == accessed.placements[p].designated
    IN  {IF ~is_valid(final)
         THEN [h |-> accessed, chromosome |-> c, error |-> "AssertionError"]
         ELSE LET placed == IF final = d THEN accessed
                            ELSE NewPlacement(accessed, final)
                  q == IF final = d THEN p ELSE Len(placed.placements)
                  encoded == memoized_placement_matrix(placed, q)
                  made == NewChromosome(encoded, encoded.placements[q].memo,
                                        0, NoRef)
              IN  [h |-> made, chromosome |-> Len(made.chromosomes),
                   error |-> "none"] :
            final \in AcceptanceMutationPlacements(d)}

\* RandomRejectionMutationOperator.__call__: the rows are replaced in the
\* list object of the chromosome's genes, and the mutated chromosome is a
\* new chromosome on the same list object
rejection_mutation(h, c) ==
    {LET l == h.chromosomes[c].genes
         mutated == [lists |-> Put(h.lists, l,
                                   RandomRejectionMutation(h.lists[l], drawn)),
                     placements |-> h.placements,
                     chromosomes |-> h.chromosomes]
         made == NewChromosome(mutated, l, 0, NoRef)
     IN  [h |-> made, chromosome |-> Len(made.chromosomes), error |-> "none"] :
        drawn \in SUBSET FullyPlacedRows(genes_of(h, c))}

\* Config.mutation_operators
mutation_operators ==
    <<"RandomAcceptanceMutationOperator", "RandomRejectionMutationOperator">>

mutation_operator(name, h, c) ==
    IF name = "RandomAcceptanceMutationOperator"
    THEN acceptance_mutation(h, c) ELSE rejection_mutation(h, c)

RECURSIVE mutate_chromosome(_, _, _)
\* the inner loop of _produce_mutations from the k-th operator: the draw
\* random.random() < chromosome_mutation_probability decides whether the
\* operator is applied
mutate_chromosome(h, c, k) ==
    IF k > Len(mutation_operators)
    THEN {[h |-> h, chromosome |-> c, error |-> "none"]}
    ELSE UNION {IF made.error # "none" THEN {made}
                ELSE mutate_chromosome(made.h, made.chromosome, k + 1) :
                    made \in {[h |-> h, chromosome |-> c, error |-> "none"]}
                             \cup mutation_operator(mutation_operators[k], h, c)}

RECURSIVE mutate_chromosomes(_, _, _, _)
\* the outer loop of _produce_mutations from the i-th chromosome
mutate_chromosomes(h, chromosomes, i, mutated_chromosomes) ==
    IF i > Len(chromosomes)
    THEN {[h |-> h, mutated_chromosomes |-> mutated_chromosomes,
           error |-> "none"]}
    ELSE UNION {IF made.error # "none"
                THEN {[h |-> made.h,
                       mutated_chromosomes |-> mutated_chromosomes,
                       error |-> made.error]}
                ELSE mutate_chromosomes(made.h, chromosomes, i + 1,
                                        Append(mutated_chromosomes,
                                               made.chromosome)) :
                    made \in mutate_chromosome(h, chromosomes[i], 1)}

\* GeneticAlgorithm._produce_mutations
produce_mutations(h, chromosomes) == mutate_chromosomes(h, chromosomes, 1, <<>>)


\* the distinct elements of s in the order of their first occurrence
Distinct(s) ==
    LET firsts == {i \in DOMAIN s : \A j \in 1..(i - 1) : s[j] # s[i]}
    IN  [k \in 1..Cardinality(firsts) |->
            s[CHOOSE i \in firsts : Cardinality({j \in firsts : j < i}) = k - 1]]

Position(s, x) == CHOOSE i \in DOMAIN s : s[i] = x

IsRef(x) == x # NoRef

\* "population = elite + mutated_children" drops every other reference of
\* run: the objects still reachable from the chromosomes of the list, named
\* by their order of first reach; the objects unreachable are freed
reachable(h, chromosomes) ==
    LET cs == Distinct(chromosomes)
        ps == Distinct(SelectSeq([i \in DOMAIN cs |->
                                     h.chromosomes[cs[i]].encoded_data], IsRef))
        ls == Distinct([i \in DOMAIN cs |-> h.chromosomes[cs[i]].genes]
                       \o SelectSeq([i \in DOMAIN ps |-> h.placements[ps[i]].memo],
                                    IsRef))
        ref(s, x) == IF x = NoRef THEN NoRef ELSE Position(s, x)
    IN  [h |-> [lists |-> [i \in DOMAIN ls |-> h.lists[ls[i]]],
                placements |->
                    [i \in DOMAIN ps |->
                        [designated |-> h.placements[ps[i]].designated,
                         memo |-> ref(ls, h.placements[ps[i]].memo)]],
                chromosomes |->
                    [i \in DOMAIN cs |->
                        [genes |-> ref(ls, h.chromosomes[cs[i]].genes),
                         fitness_value |-> h.chromosomes[cs[i]].fitness_value,
                         encoded_data |->
                             ref(ps, h.chromosomes[cs[i]].encoded_data)]]],
         chromosomes |-> [i \in DOMAIN chromosomes |-> Position(cs, chromosomes[i])]]

(***************************************************************************)
(* SpecGA: search_optimal_placement and the run of the genetic algorithm   *)
(* it starts.  One action per method of GeneticAlgorithm; the time-limit   *)
(* condition is true or false at each evaluation, and the number of        *)
(* generations is capped.  evaluated_best records the greatest fitness     *)
(* value of each evaluation of the population, in their order.             *)
(***************************************************************************)
MaxGenerations == 2         \* generations a run can process

\* the rows an initial-population file can hold: a chromosome that places
\* both requests of a mutually exclusive group, and the all-rejected one
InitialPopulationFiles ==
    <<<<>>,
      << <<<<0>>, <<0>>, <<-1>>>> >>,
      << <<<<-1>>, <<-1>>, <<-1>>>>, <<<<0>>, <<0>>, <<-1>>>>,
         <<<<-1>>, <<-1>>, <<-1>>>> >> >>

\* Config: population_size, num_elite, the selection operator with its
\* argument, the initial-population file
GASettings ==
    {[population_size |-> c[1], num_elites |-> c[2],
      selection_operator |-> c[3],
      pressure_parameter |-> Fl(9 * FloatUnit, 10),
      initial_population_file |-> c[4]] :
        c \in {<<3, 2, "TournamentSelection", 1>>,
               <<2, 0, "LinearRankSelectionOperator", 1>>,
               <<2, 1, "ExponentialRankSelectionOperator", 1>>,
               <<2, 2, "LinearRankSelectionOperator", 2>>,
               <<2, 1, "TournamentSelection", 2>>,
               <<2, 1, "TournamentSelection", 3>>}}

\* the steps of a generation, in the order of the loop of run
GenerationSteps ==
    <<"repair", "evaluate", "select_elite", "select_parents", "crossover",
      "mutate", "replace">>

NoResult == [returned |-> FALSE, fittest_chromosome |-> NoRef,
             placement |-> None, is_none |-> TRUE]

InitGA ==
    /\ input \in CodecInputs
    /\ input.num_vnfs_per_request = 1
    /\ input.minimum_ratio_numerator = 0
    /\ \E settings \in GASettings :
        ga = [pc |-> "parse", settings |-> settings, h |-> EmptyHeap,
              initial_population |-> <<>>, population |-> <<>>,
              elite |-> <<>>, elite_genes |-> <<>>, parents |-> <<>>,
              children |-> <<>>, mutated_children |-> <<>>,
              current_generation |-> 0, steps |-> <<>>, error |-> "none",
              evaluated_best |-> <<>>, result |-> NoResult]
    /\ accepter = RequestAccepter(empty_placement)
    /\ last_call = [request |-> UnknownRequest, outcome |-> "none",
                    before |-> accepter]
    /\ population = <<>>
    /\ last_op = NoOp
    /\ codec = Unused
    /\ sel = Unused

\* ga with the fields of changes replaced
With(changes) ==
    [f \in DOMAIN ga |-> IF f \in DOMAIN changes THEN changes[f] ELSE ga[f]]

\* an exception leaves run
Raise(error) == With([pc |-> "aborted", error |-> error])

\* search_optimal_placement up to the call of run:
\* _parse_initial_population_file
ParseInitialPopulationFile ==
    /\ ga.pc = "parse"
    /\ LET parsed == parse_initial_population_file(
                         ga.h, InitialPopulationFiles[ga.settings.initial_population_file], 1)
       IN  ga' = With([pc |-> "initialize", h |-> parsed.h,
                       initial_population |-> parsed.chromosomes])
    /\ UNCHANGED <<input, accepter, last_call, population, last_op, codec, sel>>

\* run: population = self._initialize_population(initial_population)
InitializePopulationOfRun ==
    /\ ga.pc = "initialize"
    /\ \E made \in initialize_population(ga.h, ga.initial_population,
                                         ga.settings.population_size) :
        ga' = With([pc |-> "check", h |-> made.h,
                    population |-> made.population])
    /\ UNCHANGED <<input, accepter, last_call, population, last_op, codec, sel>>

\* "while not termination_condition": TimeLimitTerminationCondition.__bool__
\* is false, elapsed_time < time_limit, and a generation starts
StartGeneration ==
    /\ ga.pc = "check"
    /\ ga.current_generation < MaxGenerations
    /\ ga' = With([pc |-> "repair", steps |-> <<>>])
    /\ UNCHANGED <<input, accepter, last_call, population, last_op, codec, sel>>

\* "while not termination_condition": the condition is true,
\* elapsed_time >= time_limit, and the loop ends
EndLoop ==
    /\ ga.pc = "check"
    /\ ga' = With([pc |-> "final_repair"])
    /\ UNCHANGED <<input, accepter, last_call, population, last_op, codec, sel>>

\* population = self._repair_population(population)
RepairPopulation ==
    /\ ga.pc \in {"repair", "final_repair"}
    /\ ga' = IF ga.pc = "repair"
             THEN With([pc |-> "evaluate", steps |-> Append(ga.steps, ga.pc),
                        population |-> repair_population(ga.population)])
             ELSE With([pc |-> "final_evaluate",
                        population |-> repair_population(ga.population)])
    /\ UNCHANGED <<input, accepter, last_call, population, last_op, codec, sel>>

\* self._evaluate_population(population)
EvaluatePopulation ==
    /\ ga.pc \in {"evaluate", "final_evaluate"}
    /\ LET evaluated == evaluate_population(ga.h, ga.population, 1)
           best == Append(ga.evaluated_best,
                          SeqMax(fitness_values(evaluated, ga.population)))
       IN  ga' = IF ga.pc = "evaluate"
                 THEN With([pc |-> "select_elite",
                            steps |-> Append(ga.steps, ga.pc),
                            h |-> evaluated, evaluated_best |-> best])
                 ELSE With([pc |-> "max", h |-> evaluated,
                            evaluated_best |-> best])
    /\ UNCHANGED <<input, accepter, last_call, population, last_op, codec, sel>>

\* elite = self._select_elite(population)
SelectElite ==
    /\ ga.pc = "select_elite"
    /\ LET elite == select_elite(ga.h, ga.population, ga.settings.num_elites)
       IN  ga' = With([pc |-> "select_parents",
                       steps |-> Append(ga.steps, ga.pc),
                       elite |-> elite,
                       elite_genes |-> [i \in DOMAIN elite |->
                                           genes_of(ga.h, elite[i])]])
    /\ UNCHANGED <<input, accepter, last_call, population, last_op, codec, sel>>

\* parents = self._select_parents(population)
SelectParents ==
    /\ ga.pc = "select_parents"
    /\ \E selected \in select_parents(ga.h, ga.settings, ga.population) :
        ga' = IF selected.error # "none" THEN Raise(selected.error)
              ELSE With([pc |-> "crossover",
                         steps |-> Append(ga.steps, ga.pc),
                         parents |-> selected.parents])
    /\ UNCHANGED <<input, accepter, last_call, population, last_op, codec, sel>>

\* children = self._perform_crossovers(parents)
PerformCrossovers ==
    /\ ga.pc = "crossover"
    /\ \E made \in perform_crossovers(ga.h, ga.parents) :
        ga' = With([pc |-> "mutate", steps |-> Append(ga.steps, ga.pc),
                    h |-> made.h, children |-> made.children])
    /\ UNCHANGED <<input, accepter, last_call, population, last_op, codec, sel>>

\* mutated_children = self._produce_mutations(children)
ProduceMutations ==
    /\ ga.pc = "mutate"
    /\ \E made \in produce_mutations(ga.h, ga.children) :
        ga' = IF made.error # "none"
              THEN With([pc |-> "aborted", error |-> made.error, h |-> made.h])
              ELSE With([pc |-> "replace", steps |-> Append(ga.steps, ga.pc),
                         h |-> made.h,
                         mutated_children |-> made.mutated_chromosomes])
    /\ UNCHANGED <<input, accepter, last_call, population, last_op, codec, sel>>

\* population = elite + mutated_children; current_generation += 1
Replace ==
    /\ ga.pc = "replace"
    /\ LET kept == reachable(ga.h, ga.elite \o ga.mutated_children)
       IN  ga' = With([pc |-> "check", steps |-> Append(ga.steps, ga.pc),
                       h |-> kept.h, population |-> kept.chromosomes,
                       elite |-> Take(kept.chromosomes, Len(ga.elite)),
                       mutated_children |->
                           SubSeq(kept.chromosomes, Len(ga.elite) + 1,
                                  Len(kept.chromosomes)),
                       parents |-> <<>>, children |-> <<>>,
                       current_generation |-> ga.current_generation + 1])
    /\ UNCHANGED <<input, accepter, last_call, population, last_op, codec, sel>>

\* A faulty variant of the result of search_optimal_placement: the
\* placement of the fittest chromosome is returned without the filter.
unfiltered_placement(h, fittest_chromosome) ==
    LET d == h.placements[h.chromosomes[fittest_chromosome].encoded_data].designated
    IN  [returned |-> TRUE, fittest_chromosome |-> fittest_chromosome,
         placement |-> d, is_none |-> FALSE]

\* the result of search_optimal_placement for the chromosome run returned:
\* fittest_chromosome.encoded_data if it is valid, else None
optimal_placement(h, fittest_chromosome) ==
    LET d == h.placements[h.chromosomes[fittest_chromosome].encoded_data].designated
    IN  [returned |-> TRUE, fittest_chromosome |-> fittest_chromosome,
         placement |-> IF is_valid(d) THEN d ELSE None,
         is_none |-> ~is_valid(d)]

\* fittest_chromosome = max(population); return fittest_chromosome; and
\* the rest of search_optimal_placement
ReturnFittest ==
    /\ ga.pc = "max"
    /\ ga' = With([pc |-> "returned",
                   result |-> optimal_placement(ga.h, fittest(ga.h, ga.population))])
    /\ UNCHANGED <<input, accepter, last_call, population, last_op, codec, sel>>

NextGA ==
    \/ ParseInitialPopulationFile
    \/ InitializePopulationOfRun
    \/ StartGeneration
    \/ EndLoop
    \/ RepairPopulation
    \/ EvaluatePopulation
    \/ SelectElite
    \/ SelectParents
    \/ PerformCrossovers
    \/ ProduceMutations
    \/ Replace
    \/ ReturnFittest

SpecGA == InitGA /\ [][NextGA]_vars


(***************************************************************************)
(* Properties of the run of the genetic algorithm (SpecGA).                *)
(***************************************************************************)
\* the positions of the population whose genes decode to a valid placement
ValidChromosomes ==
    {i \in DOMAIN ga.population :
        is_valid(decoding_function(genes_of(ga.h, ga.population[i])))}

FitnessValue(c) == ga.h.chromosomes[c].fitness_value

\* the placement cached by chromosome c
CachedPlacement(c) == ga.h.placements[ga.h.chromosomes[c].encoded_data].designated

\* C11 as stated: when the search has returned and a chromosome of the
\* final population decodes to a valid placement, the result is a valid
\* placement, not none, whose fitness is at least the fitness of every
\* valid chromosome of the final population.
C11_ReturnsFittestValidPlacement ==
    (ga.pc = "returned" /\ ValidChromosomes # {}) =>
        /\ ~ga.result.is_none
        /\ is_valid(ga.result.placement)
        /\ \A i \in ValidChromosomes :
               objective_function(ga.result.placement)
                   >= FitnessValue(ga.population[i])

\* C11, amended: when the search has returned, the chromosome run returned
\* is one of greatest fitness_value in the final population, valid or not;
\* the result is the placement that chromosome caches if that placement is
\* valid, and none otherwise.
C11_ReturnsFittestIfValid ==
    ga.pc = "returned" =>
        LET c == ga.result.fittest_chromosome
        IN  /\ c \in Range(ga.population)
            /\ \A i \in DOMAIN ga.population :
                   FitnessValue(ga.population[i]) <= FitnessValue(c)
            /\ is_valid(CachedPlacement(c)) =>
                   ~ga.result.is_none /\ ga.result.placement = CachedPlacement(c)
            /\ ~is_valid(CachedPlacement(c)) =>
                   ga.result.is_none /\ ga.result.placement = None

\* the search returned a placement from a final population that also holds
\* an invalid chromosome, after at least one generation
C11_Witness ==
    /\ ga.pc = "returned"
    /\ ga.current_generation >= 1
    /\ ~ga.result.is_none
    /\ ValidChromosomes # {}
    /\ ValidChromosomes # DOMAIN ga.population

\* C14: after every evaluation of the population, in the loop and after
\* it, the fitness_value of every chromosome is profit_weight times the
\* profit of the placement its current genes decode to, and chromosomes
\* with equal genes have equal fitness_value.
C14_FitnessDependsOnGenesOnly ==
    ga.pc \in {"select_elite", "max"} =>
        /\ \A i \in DOMAIN ga.population :
               FitnessValue(ga.population[i])
                   = profit_weight
                       * profit(decoding_function(genes_of(ga.h, ga.population[i])))
        /\ \A i, j \in DOMAIN ga.population :
               genes_of(ga.h, ga.population[i]) = genes_of(ga.h, ga.population[j])
                   => FitnessValue(ga.population[i]) = FitnessValue(ga.population[j])

\* C15: from its selection on, through the crossovers and mutations of the
\* generation and in the next population, every elite chromosome has the
\* genes it had when it was selected; after the replacement the elite
\* chromosomes are the first chromosomes of the population.
C15_EliteGenesUnchanged ==
    /\ \A i \in DOMAIN ga.elite :
           genes_of(ga.h, ga.elite[i]) = ga.elite_genes[i]
    /\ (ga.pc = "check" /\ ga.current_generation > 0) =>
           ga.elite = Take(ga.population, Len(ga.elite))

\* C16: in every state of a run, the memoized placement_matrix of every
\* placement is the encoding of its designated_nodes_per_request.
C16_MemoizedMatrixMatchesPlacement ==
    \A p \in DOMAIN ga.h.placements :
        ga.h.placements[p].memo # NoRef =>
            ga.h.lists[ga.h.placements[p].memo]
                = placement_matrix(ga.h.placements[p].designated)

\* C17: the initial population has population_size chromosomes, the first
\* min(population_size, given) with the genes of the rows of the file in
\* their order; after every completed generation the population is
\* num_elite elite chromosomes followed by population_size - num_elite
\* mutated children.
C17_PopulationSizeInvariant ==
    ga.pc = "check" =>
        /\ Len(ga.population) = ga.settings.population_size
        /\ ga.current_generation = 0 =>
               LET rows == InitialPopulationFiles[ga.settings.initial_population_file]
               IN  \A i \in DOMAIN rows :
                       i <= ga.settings.population_size =>
                           genes_of(ga.h, ga.population[i]) = rows[i]
        /\ ga.current_generation > 0 =>
               /\ Len(ga.elite) = ga.settings.num_elites
               /\ Len(ga.mutated_children)
                      = ga.settings.population_size - ga.settings.num_elites
               /\ ga.population = ga.elite \o ga.mutated_children

\* C18: no step of a started generation ends the run; when the condition
\* is evaluated after a generation, the generation has run repair,
\* evaluate, elitism, selection, crossover, mutation and replace in that
\* order; the final population is repaired and evaluated after the loop,
\* and the chromosome returned has the greatest fitness_value in it.
C18_StartedGenerationRunsAllSteps ==
    /\ ga.pc # "aborted"
    /\ (ga.pc = "check" /\ ga.current_generation > 0) =>
           ga.steps = GenerationSteps
    /\ ga.pc \in {"final_repair", "final_evaluate", "max", "returned"} =>
           ga.steps = IF ga.current_generation = 0 THEN <<>> ELSE GenerationSteps
    /\ ga.pc = "returned" =>
           \A i \in DOMAIN ga.population :
               FitnessValue(ga.population[i])
                   <= FitnessValue(ga.result.fittest_chromosome)


\* the chromosomes a run holds: the population, the elite, the parents,
\* the crossover children and the children after the mutations
ChromosomesOfRun ==
    Range(ga.population) \cup Range(ga.elite) \cup Range(ga.parents)
        \cup Range(ga.children) \cup Range(ga.mutated_children)

\* the rows of the initial-population file that enter the initial population
RowsTaken ==
    Take(InitialPopulationFiles[ga.settings.initial_population_file],
         ga.settings.population_size)

\* C21: if every chromosome read into the initial population has at most
\* one accepted member per mutually exclusive group, then at every step of
\* every generation every chromosome of the run (initialized chromosomes,
\* elites, parents, crossover children, children after the acceptance and
\* rejection mutations) decodes to a placement with at most one accepted
\* member per group.
C21_ExclusivityThroughoutSearch ==
    (\A i \in DOMAIN RowsTaken :
         AtMostOneAcceptedPerGroup(decoding_function(RowsTaken[i]))) =>
        \A c \in ChromosomesOfRun :
            AtMostOneAcceptedPerGroup(decoding_function(genes_of(ga.h, c)))

\* a generation has been completed, from an initial population with at most
\* one accepted member per group, in which a mutation built a child that
\* accepts a member of the group of requests 1 and 2; the population holds
\* a chromosome that accepts request 1 and one that accepts request 2
C21_Witness ==
    /\ ga.pc = "check"
    /\ ga.current_generation >= 1
    /\ \A i \in DOMAIN RowsTaken :
           AtMostOneAcceptedPerGroup(decoding_function(RowsTaken[i]))
    /\ \E i \in DOMAIN ga.mutated_children :
           LET c == ga.mutated_children[i]
           IN  /\ ga.h.chromosomes[c].encoded_data = NoRef
               /\ \E r \in GroupOf(1) :
                      decoding_function(genes_of(ga.h, c))[r] # None
    /\ \E c \in Range(ga.population) :
           decoding_function(genes_of(ga.h, c))[1] # None
    /\ \E c \in Range(ga.population) :
           decoding_function(genes_of(ga.h, c))[2] # None

MaxUnitCost == 2

ProfitInputs ==
    {[f EXCEPT !.resource_unit_cost =
                   [n \in Nodes |-> [t \in ResourceTypes |-> cn[n]]],
               !.bandwidth_unit_cost =
                   [l \in Links |-> IF l[1] = l[2] THEN cb[1] ELSE cb[2]]] :
        f \in {g \in CodecInputs : g.minimum_ratio_numerator = 0},
        cn \in [Nodes -> 0..MaxUnitCost],
        cb \in (0..MaxUnitCost) \X (0..MaxUnitCost)}

InitProfit ==
    /\ input \in ProfitInputs
    /\ \E genes \in Matrices(input.num_vnfs_per_request) :
        codec = [pc |-> "matrix", genes |-> genes,
                 placement |-> empty_placement, profit |-> 0]
    /\ accepter = RequestAccepter(empty_placement)
    /\ last_call = [request |-> UnknownRequest, outcome |-> "none",
                    before |-> accepter]
    /\ population = <<>>
    /\ last_op = NoOp
    /\ sel = Unused
    /\ ga = Unused

\* VNFChainPlacement.from_placement_matrix(genes)
DecodeForProfit ==
    /\ codec.pc = "matrix"
    /\ codec' = [codec EXCEPT !.pc = "decoded",
                              !.placement = decoding_function(codec.genes)]
    /\ UNCHANGED <<input, accepter, last_call, population, last_op, sel, ga>>

\* placement.profit
EvaluateProfit ==
    /\ codec.pc = "decoded"
    /\ codec' = [codec EXCEPT !.pc = "evaluated",
                              !.profit = profit(codec.placement)]
    /\ UNCHANGED <<input, accepter, last_call, population, last_op, sel, ga>>

NextProfit == DecodeForProfit \/ EvaluateProfit

SpecProfit == InitProfit /\ [][NextProfit]_vars

\* revenue of the accepted requests, minus every node's summed VNF demand
\* times its unit cost, minus every link's summed virtual link bandwidth
\* times its bandwidth unit cost
RevenueMinusCosts(d) ==
    Sum([r \in Requests |-> revenue(r)], Accepted(d))
        - Sum([n \in Nodes |->
                  Sum([t \in ResourceTypes |->
                          DemandOnNode(d, n, t) * input.resource_unit_cost[n][t]],
                      ResourceTypes)],
              Nodes)
        - Sum([l \in Links |-> DemandOnLink(d, l) * input.bandwidth_unit_cost[l]],
              Links)

\* C23: the profit of any placement, valid or not, is the summed revenue of
\* its accepted requests minus, over the nodes and resource types, the
\* allocated amount times the unit cost, minus, over the links, the
\* allocated bandwidth times the bandwidth unit cost; a node hosting no VNF
\* and a link carrying no virtual link cost nothing, and the profit of the
\* all-rejected placement is 0.
C23_ProfitIsRevenueMinusCosts ==
    codec.pc = "evaluated" =>
        /\ codec.profit = RevenueMinusCosts(codec.placement)
        /\ \A n \in Nodes \ employed_nodes(codec.placement) :
               \A t \in ResourceTypes :
                   allocated_resources_per_node(codec.placement)[n][t] = 0
        /\ \A l \in Links :
               virtual_links_by_designated_network_link(codec.placement)[l] = {}
                   => total_bandwidth_cost_per_network_link(codec.placement)[l] = 0
        /\ codec.placement = empty_placement => codec.profit = 0

\* the profit of a placement that is not valid has been computed: two
\* requests are accepted, a node and a link with positive unit costs are
\* used, and a node with a positive unit cost hosts no VNF
C23_Witness ==
    /\ codec.pc = "evaluated"
    /\ ~is_valid(codec.placement)
    /\ Cardinality(Accepted(codec.placement)) = 2
    /\ \E n \in Nodes :
           /\ DemandOnNode(codec.placement, n, 0) > 0
           /\ input.resource_unit_cost[n][0] > 0
    /\ \E n \in Nodes :
           /\ DemandOnNode(codec.placement, n, 0) = 0
           /\ input.resource_unit_cost[n][0] > 0
    /\ \E l \in Links :
           /\ DemandOnLink(codec.placement, l) > 0
           /\ input.bandwidth_unit_cost[l] > 0
    /\ codec.profit < 0

(***************************************************************************)
(* SpecConfig: the configuration file is loaded, the settings of the       *)
(* genetic algorithm are built from it and the search is started           *)
(* (__main__.py, config.py, genetic_placement_searcher.py).  A probability *)
(* is counted in halves, so that -1 stands for -0.5 and 3 for 1.5.  An     *)
(* file gives the options named in its field options.                      *)
(***************************************************************************)
HalfProbabilities == {-1, 0, 1, 2, 3}

NumericOptions ==
    {"population_size", "num_elite", "crossover_probability",
     "chromosome_mutation_probability", "time_limit"}

ConfigFiles ==
    [options : {NumericOptions, NumericOptions \ {"num_elite"},
                NumericOptions \ {"crossover_probability"}},
     population_size : 1..MaxPopulation,
     num_elite : -1..(MaxPopulation + 1),
     crossover_probability : HalfProbabilities,
     chromosome_mutation_probability : HalfProbabilities,
     time_limit : {0, 1}]

InitConfig ==
    /\ input \in {f \in CodecInputs :
                     /\ f.num_vnfs_per_request = 1
                     /\ f.minimum_ratio_numerator = 0}
    /\ \E file \in ConfigFiles :
        ga = [pc |-> "file", config_file |-> file, config |-> None,
              settings |-> None, current_generation |-> 0]
    /\ accepter = RequestAccepter(empty_placement)
    /\ last_call = [request |-> UnknownRequest, outcome |-> "none",
                    before |-> accepter]
    /\ population = <<>>
    /\ last_op = NoOp
    /\ codec = Unused
    /\ sel = Unused

\* Config.from_file: getint and getfloat of every option; an option that is
\* not in the file raises configparser.NoOptionError, a value of any size
\* and sign is taken as it is
LoadConfig ==
    /\ ga.pc = "file"
    /\ IF ga.config_file.options # NumericOptions
       THEN ga' = [ga EXCEPT !.pc = "configuration_error"]
       ELSE ga' = [ga EXCEPT !.pc = "loaded", !.config = ga.config_file]
    /\ UNCHANGED <<input, accepter, last_call, population, last_op, codec, sel>>

\* search_optimal_placement up to the call of GeneticAlgorithm.run:
\* _setup_genetic_algorithm_settings copies the four numbers into Settings
SetupGeneticAlgorithm ==
    /\ ga.pc = "loaded"
    /\ ga' = [ga EXCEPT
                 !.pc = "run",
                 !.settings =
                     [population_size |-> ga.config.population_size,
                      crossover_probability |-> ga.config.crossover_probability,
                      chromosome_mutation_probability |->
                          ga.config.chromosome_mutation_probability,
                      num_elites |-> ga.config.num_elite]]
    /\ UNCHANGED <<input, accepter, last_call, population, last_op, codec, sel>>

\* GeneticAlgorithm.run: "while not termination_condition" is entered for
\* the first generation; with a time limit of 0 the elapsed time has already
\* reached the limit
EnterFirstGeneration ==
    /\ ga.pc = "run"
    /\ ga.config.time_limit > 0
    /\ ga' = [ga EXCEPT !.pc = "generation"]
    /\ UNCHANGED <<input, accepter, last_call, population, last_op, codec, sel>>

\* GeneticAlgorithm.run: the time limit is reached before the first
\* generation, the loop is skipped
SkipGenerations ==
    /\ ga.pc = "run"
    /\ ga' = [ga EXCEPT !.pc = "no_generation"]
    /\ UNCHANGED <<input, accepter, last_call, population, last_op, codec, sel>>

NextConfig ==
    LoadConfig \/ SetupGeneticAlgorithm \/ EnterFirstGeneration \/ SkipGenerations

SpecConfig == InitConfig /\ [][NextConfig]_vars

\* a numeric setting of the configuration file is out of range
NumEliteOutOfRange(file) ==
    /\ "num_elite" \in file.options
    /\ file.num_elite < 0 \/ file.num_elite > file.population_size

ProbabilityOutOfRange(p) == p < 0 \/ p > 2

OutOfRange(file) ==
    \/ NumEliteOutOfRange(file)
    \/ /\ "crossover_probability" \in file.options
       /\ ProbabilityOutOfRange(file.crossover_probability)
    \/ ProbabilityOutOfRange(file.chromosome_mutation_probability)

\* C24: loading a configuration file with num_elite < 0 or
\* num_elite > population_size, or with crossover_probability or
\* chromosome_mutation_probability outside [0,1], ends in a configuration
\* error: the configuration is never loaded and no generation is run.
C24_OutOfRangeIsConfigurationError ==
    OutOfRange(ga.config_file) => ga.pc \in {"file", "configuration_error"}

(***************************************************************************)
(* The egress hop of an accepted request (Spec).                           *)
(***************************************************************************)
\* the substrate link from the node of the last VNF to the egress node, and
\* the virtual link from the last VNF to the egress endpoint
EgressLink(d, r) == PathLink(d, r, num_vnfs + 1)
LastVirtualLink(r) == <<r, num_vnfs + 1>>

\* C25: accept(r) returns true only if the substrate link from the node of
\* the last VNF to the egress network node had, in the placement the call
\* started from, remaining bandwidth of at least the minimum guaranteed
\* bandwidth of the last virtual link of the chain, and a latency of at
\* most the maximum tolerated latency less the latencies of the hops to
\* the VNFs.
C25_EgressLinkChecked ==
    last_call.outcome = "True" =>
        LET r == last_call.request
            l == EgressLink(PlacementAfter, r)
        IN  /\ remaining_bandwidth_per_network_link(PlacementBefore)[l]
                   >= minimum_guaranteed_bandwidth(LastVirtualLink(r))
            /\ input.latency[l]
                   <= maximum_tolerated_latency(r)
                          - Sum([j \in 1..num_vnfs |->
                                    input.latency[PathLink(PlacementAfter, r, j)]],
                                1..num_vnfs)

(***************************************************************************)
(* SpecAllRejected: the accept calls made on an accepter that is built on  *)
(* the all-rejected placement, as RandomPlacementInitializationOperator    *)
(* builds it.                                                              *)
(***************************************************************************)
InitAllRejected ==
    /\ input \in InputFiles
    /\ accepter = RequestAccepter(empty_placement)
    /\ last_call = [request |-> UnknownRequest, outcome |-> "none",
                    before |-> accepter]
    /\ population = <<>>
    /\ last_op = NoOp
    /\ codec = Unused
    /\ sel = Unused
    /\ ga = Unused

SpecAllRejected == InitAllRejected /\ [][Next]_vars

\* the VNFs a placement puts on a node
VnfsOnNode(d, n) ==
    {v \in VNFs : v[1] \in Accepted(d) /\ VnfNode(d, v[1], v[2]) = n}

\* C26: after any sequence of accept calls on an accepter that started from
\* the all-rejected placement, for every node and every resource type the
\* summed demand of the VNFs placed on the node is at most the capacity of
\* the node.
C26_ResourceFeasibilityPreserved ==
    \A n \in Nodes : \A t \in ResourceTypes :
        DemandOnNode(accepter.current_placement, n, t) <= input.capacity[n][t]

\* an accept call has returned true with a node that holds the VNF of a
\* request placed by an earlier call, and the VNFs of the node use all its
\* capacity
C26_Witness ==
    /\ last_call.outcome = "True"
    /\ \E n \in Nodes :
        /\ Cardinality(VnfsOnNode(accepter.current_placement, n)) >= 2
        /\ \E v \in VnfsOnNode(accepter.current_placement, n) :
               v[1] # last_call.request
        /\ \A t \in ResourceTypes :
               DemandOnNode(accepter.current_placement, n, t)
                   = input.capacity[n][t]

(***************************************************************************)
(* The path latency of a committed request (Spec).                         *)
(***************************************************************************)
\* C27: a request that accept commits has a list of designated nodes made of
\* its ingress node, one node per VNF and its egress node, and the summed
\* latency of the k+1 substrate links between consecutive nodes of the list
\* is at most the maximum tolerated latency of the request.
C27_CommittedPathWithinLatency ==
    last_call.outcome = "True" =>
        LET r == last_call.request
            nodes == PlacementAfter[r]
        IN  /\ Len(nodes) = num_vnfs + 2
            /\ nodes[1] = ingress_node(r)
            /\ nodes[Len(nodes)] = egress_node(r)
            /\ PathLatency(PlacementAfter, r) <= maximum_tolerated_latency(r)

\* a request has been committed over links with a positive latency, with a
\* path latency equal to its maximum tolerated latency
C27_Witness ==
    /\ last_call.outcome = "True"
    /\ \E l \in Links : input.latency[l] > 0
    /\ PathLatency(PlacementAfter, last_call.request) > 0
    /\ PathLatency(PlacementAfter, last_call.request)
           = maximum_tolerated_latency(last_call.request)

(***************************************************************************)
(* SpecCrossover: one call of the crossover operator on two parent         *)
(* chromosomes of the heap, which may be one chromosome given twice (the   *)
(* fill value of zip_longest in _perform_crossovers).  codec holds the     *)
(* heap, the parents, the value of their genes when the call is made, the  *)
(* shuffled list of row groups and the children returned.                  *)
(***************************************************************************)
CrossoverInputs ==
    {f \in InputFiles :
        /\ f.num_vnfs_per_request = 1
        /\ f.minimum_ratio_numerator = 0
        /\ \A l \in Links : f.latency[l] = 0}

\* the heap with one chromosome per matrix, nothing decoded
ParentsHeap(genes1, genes2) ==
    LET first == NewChromosome(NewList(EmptyHeap, genes1), 1, 0, NoRef)
    IN  NewChromosome(NewList(first, genes2), 2, 0, NoRef)

InitCrossover ==
    /\ input \in CrossoverInputs
    /\ \E genes1 \in Matrices(1), genes2 \in Matrices(1), second \in {1, 2} :
        codec = [pc |-> "parents",
                 h |-> ParentsHeap(genes1, genes2),
                 parent1 |-> 1, parent2 |-> second,
                 parent1_genes |-> genes1,
                 parent2_genes |-> IF second = 1 THEN genes1 ELSE genes2,
                 shuffled |-> <<>>, children |-> <<>>]
    /\ accepter = RequestAccepter(empty_placement)
    /\ last_call = [request |-> UnknownRequest, outcome |-> "none",
                    before |-> accepter]
    /\ population = <<>>
    /\ last_op = NoOp
    /\ sel = Unused
    /\ ga = Unused

\* child1, child2 = crossover_operator(parent1, parent2)
CallCrossover ==
    /\ codec.pc = "parents"
    /\ \E shuffled \in Shuffles(group_row_indexes_by_mutual_exclusivity(
                                    decoding_function(codec.parent1_genes))) :
        LET result == crossover_operator(codec.h, codec.parent1, codec.parent2,
                                         shuffled)
        IN  codec' = [codec EXCEPT !.pc = "children",
                                   !.h = result.h,
                                   !.shuffled = shuffled,
                                   !.children = result.children]
    /\ UNCHANGED <<input, accepter, last_call, population, last_op, sel, ga>>

NextCrossover == CallCrossover

SpecCrossover == InitCrossover /\ [][NextCrossover]_vars

\* the rows of the matrix that belong to one mutually exclusive group: a
\* main request and its alternatives
GroupBlocks ==
    {{i \in DOMAIN evaluated_requests : evaluated_requests[i] \in GroupOf(r)} :
        r \in Requests}

\* child1 has the rows of b and child2 the rows of a in the block, and
\* outside it child1 has the rows of a and child2 the rows of b
SwappedInBlock(child1, child2, a, b, block) ==
    \A i \in DOMAIN a :
        IF i \in block
        THEN child1[i] = b[i] /\ child2[i] = a[i]
        ELSE child1[i] = a[i] /\ child2[i] = b[i]

\* C28: the crossover leaves the genes of the parents as they were, and its
\* children either equal the parents or differ from them by the exchange
\* of the rows of one group block: child1 has parent2's rows and child2
\* has parent1's rows in that block and every other row of child1 is
\* parent1's and of child2 is parent2's, whatever swaps were tried and
\* dropped before.
C28_CrossoverSwapsOneGroupBlock ==
    codec.pc = "children" =>
        LET child1 == genes_of(codec.h, codec.children[1])
            child2 == genes_of(codec.h, codec.children[2])
        IN  /\ genes_of(codec.h, codec.parent1) = codec.parent1_genes
            /\ genes_of(codec.h, codec.parent2) = codec.parent2_genes
            /\ \/ child1 = codec.parent1_genes /\ child2 = codec.parent2_genes
               \/ \E block \in GroupBlocks :
                      SwappedInBlock(child1, child2, codec.parent1_genes,
                                     codec.parent2_genes, block)

\* the parents differ in every row and are two chromosomes, and the
\* children are the parents with the rows of requests 1 and 2, one group
\* block, exchanged
C28_Witness ==
    /\ codec.pc = "children"
    /\ codec.parent1 # codec.parent2
    /\ \A i \in DOMAIN codec.parent1_genes :
           codec.parent1_genes[i] # codec.parent2_genes[i]
    /\ genes_of(codec.h, codec.children[1]) # codec.parent1_genes
    /\ genes_of(codec.h, codec.children[2]) # codec.parent2_genes
    /\ SwappedInBlock(genes_of(codec.h, codec.children[1]),
                      genes_of(codec.h, codec.children[2]),
                      codec.parent1_genes, codec.parent2_genes,
                      {i \in DOMAIN evaluated_requests :
                          evaluated_requests[i] \in GroupOf(1)})

(***************************************************************************)
(* The best fitness across the generations (SpecGA).                       *)
(***************************************************************************)
\* C29: with num_elite >= 1 and the identity repair, the greatest fitness
\* value of every evaluation of the population, at the start of a
\* generation or after the loop, is at least the greatest fitness value of
\* the evaluation before it.
C29_BestFitnessNeverDecreases ==
    ga.settings.num_elites >= 1 =>
        \A g \in DOMAIN ga.evaluated_best :
            g > 1 => ga.evaluated_best[g] >= ga.evaluated_best[g - 1]

\* two generations have run with an elite that is not the whole
\* population, the final population has been evaluated, and the best
\* fitness has grown since the first evaluation
C29_Witness ==
    /\ ga.pc = "max"
    /\ ga.settings.num_elites >= 1
    /\ ga.settings.num_elites < ga.settings.population_size
    /\ Len(ga.evaluated_best) = MaxGenerations + 1
    /\ ga.evaluated_best[Len(ga.evaluated_best)] > ga.evaluated_best[1]

(***************************************************************************)
(* Parent selection in the generations of a run (SpecGA).                  *)
(***************************************************************************)
\* the exceptions a selection operator can raise
SelectionErrors == {"ValueError", "ZeroDivisionError"}

\* C30: with 0 <= num_elite <= population_size and any of the three
\* selection operators, parent selection raises no error in any generation
\* and returns exactly population_size - num_elite parents, also when
\* num_elite = population_size and no parent is asked for.
C30_ParentSelectionCompletes ==
    /\ ga.error \notin SelectionErrors
    /\ ga.pc = "crossover" =>
           Len(ga.parents) = ga.settings.population_size - ga.settings.num_elites

=========================================================================
